---- MODULE Spec2Model ----
(***************************************************************************)
(* go-landlock: the enforcement call restrictPaths (landlock/restrict.go), *)
(* the rule model (landlock/path_opt.go, landlock/rule_composite.go), the  *)
(* ABI registry and the downgrade algorithm, over a small model of the     *)
(* kernel's Landlock interface and of the process's threads.               *)
(*                                                                         *)
(* An AccessFSSet (a uint64 bit mask in the code) is the set of the        *)
(* positions of its 1-bits: a&b is \cap, a|b is \cup, a == 0 is a = {}.    *)
(***************************************************************************)
EXTENDS Integers, Sequences, FiniteSets, TLC

VARIABLES
    kv,        \* what the running kernel answers to the ABI query (-1: error)
    threads,   \* the OS threads of the process
    nnp,       \* per thread: the no-new-privileges flag
    domain,    \* per thread: the stack of rulesets enforced on it
    pc,        \* position of the enforcement call
    caller,    \* the thread restrictPaths runs on
    cfg,       \* the Config the call was made with
    opts,      \* the rules the call was made with
    abi,       \* restrictPaths' local abi
    c,         \* restrictPaths' local c (reassigned by downgrade)
    rules,     \* restrictPaths' local opts (reassigned by downgrade)
    ruleset,   \* the kernel ruleset object behind fd
    todo,      \* the (path, access) registrations addToRuleset still has to do
    result,    \* the error value the call returned
    syscalls,  \* the kernel calls issued by the call, in order
    atCall,    \* threads, nnp and domain at the moment of the call
    args,      \* the arguments NewConfig is called with
    newConfig, \* what NewConfig returned: the *Config (<<>> is nil) and the error
    earlier,   \* the same call as run before on another kernel, once it returned
    other,     \* the locals of a second, concurrent call while it is not running
    str,       \* what Config.String returned
    legacy     \* gracefulABI.RestrictPaths: g, the loop's v, attempts made, last err

vars == <<kv, threads, nnp, domain, pc, caller, cfg, opts, abi, c, rules,
          ruleset, todo, result, syscalls, atCall, args, newConfig, earlier,
          other, str, legacy>>

(***************************************************************************)
(* Bounds of the model.                                                    *)
(***************************************************************************)
MaxThreads == 2
MaxRules == 2
MaxArgs == 2

MaxKernelABI == 4

(***************************************************************************)
(* Access rights (bit positions), landlock/syscall.                        *)
(***************************************************************************)
AccessFSExecute == 0
AccessFSWriteFile == 1
AccessFSReadFile == 2
AccessFSReadDir == 3
AccessFSRemoveDir == 4
AccessFSRemoveFile == 5
AccessFSMakeChar == 6
AccessFSMakeDir == 7
AccessFSMakeReg == 8
AccessFSMakeSock == 9
AccessFSMakeFifo == 10
AccessFSMakeBlock == 11
AccessFSMakeSym == 12
AccessFSRefer == 13
AccessFSTruncate == 14

(***************************************************************************)
(* AccessFSSet operations.                                                 *)
(***************************************************************************)
isSubset(a, b) == (a \cap b) = a

intersect(a, b) == a \cap b

union(a, b) == a \cup b

\* Mutant: the comparison turned around.
isEmpty_Inverted(a) == a # {}

isEmpty(a) == a = {}

hasRefer(a) == (a \cap {AccessFSRefer}) # {}

accessFile == {AccessFSExecute, AccessFSWriteFile, AccessFSReadFile}

accessFSRead == {AccessFSExecute, AccessFSReadFile, AccessFSReadDir}

accessFSWrite ==
    {AccessFSWriteFile, AccessFSRemoveDir, AccessFSRemoveFile, AccessFSMakeChar,
     AccessFSMakeDir, AccessFSMakeReg, AccessFSMakeSock, AccessFSMakeFifo,
     AccessFSMakeBlock, AccessFSMakeSym, AccessFSTruncate}

accessFSReadWrite == accessFSRead \cup accessFSWrite

(***************************************************************************)
(* The ABI registry.  abiInfos[i+1] is the entry of version i.             *)
(***************************************************************************)
abiInfos ==
    << [version |-> 0, supportedAccessFS |-> {}],
       [version |-> 1, supportedAccessFS |-> 0..12],
       [version |-> 2, supportedAccessFS |-> 0..13],
       [version |-> 3, supportedAccessFS |-> 0..14] >>

(***************************************************************************)
(* Config.                                                                 *)
(***************************************************************************)
Config(handled) == [handledAccessFS |-> handled, bestEffort |-> FALSE]

V1 == Config(abiInfos[2].supportedAccessFS)

V2 == Config(abiInfos[3].supportedAccessFS)

V3 == Config(abiInfos[4].supportedAccessFS)

v0 == Config({})

BestEffort(cf) == [cf EXCEPT !.bestEffort = TRUE]

restrictTo(cf, a) ==
    [cf EXCEPT !.handledAccessFS = intersect(cf.handledAccessFS, a.supportedAccessFS)]

compatibleWithABI(cf, a) == isSubset(cf.handledAccessFS, a.supportedAccessFS)

(***************************************************************************)
(* Errors.  A Go error is the chain of its message fragments, outermost    *)
(* first, and the errno that errors.Is finds by unwrapping it ("none" when *)
(* the chain holds no errno: errors.New, or wrapping with %v).             *)
(***************************************************************************)
nil == [msgs |-> <<>>, errno |-> "nil"]

Errno(e) == [msgs |-> <<e>>, errno |-> e]

errorsNew(m) == [msgs |-> <<m>>, errno |-> "none"]

ErrorfW(m, e) == [msgs |-> <<m>> \o e.msgs, errno |-> e.errno]

ErrorfV(m, e) == [msgs |-> <<m>> \o e.msgs, errno |-> "none"]

errorsIs(e, errno) == e.errno = errno

Contains(e, m) == \E i \in 1..Len(e.msgs) : e.msgs[i] = m

BugMarker == "BUG(go-landlock): This should not have happened"

bug(e) == ErrorfW(BugMarker, e)

(***************************************************************************)
(* Rules: FSRule and RuleGroup, one record shape for both.                 *)
(***************************************************************************)
FSRule(a, enforce, ps) ==
    [kind |-> "fs", accessFS |-> a, enforceSubset |-> enforce, paths |-> ps,
     ignoreIfMissing |-> FALSE, rules |-> <<>>]

GroupRules(rs) ==
    [kind |-> "group", accessFS |-> {}, enforceSubset |-> FALSE, paths |-> <<>>,
     ignoreIfMissing |-> FALSE, rules |-> rs]

withRights(r, a) == [r EXCEPT !.accessFS = union(r.accessFS, a)]

intersectRights(r, a) == [r EXCEPT !.accessFS = intersect(r.accessFS, a)]

WithRefer(r) == withRights(r, {AccessFSRefer})

\* The "ignore if missing" modifier of a path rule.
IgnoreIfMissing(r) == [r EXCEPT !.ignoreIfMissing = TRUE]

PathAccess(a, ps) == FSRule(a, TRUE, ps)

RODirs(ps) == FSRule(accessFSRead, FALSE, ps)

RWDirs(ps) == FSRule(accessFSReadWrite, FALSE, ps)

ROFiles(ps) == FSRule(accessFSRead \cap accessFile, FALSE, ps)

RWFiles(ps) == FSRule(accessFSReadWrite \cap accessFile, FALSE, ps)

(***************************************************************************)
(* compatibleWithConfig, by rule variant.                                  *)
(***************************************************************************)
RECURSIVE compatibleWithConfig(_, _)

\* Mutant: every rule is checked as a canned one (enforceSubset forgotten).
FSRule_compatibleWithConfig_Lenient(r, cf) ==
    isSubset(intersect(r.accessFS, {AccessFSRefer}), cf.handledAccessFS)

\* Mutant: a canned rule is not checked at all, refer included.
FSRule_compatibleWithConfig_NoReferCheck(r, cf) ==
    IF ~r.enforceSubset THEN TRUE ELSE isSubset(r.accessFS, cf.handledAccessFS)

FSRule_compatibleWithConfig(r, cf) ==
    LET a == IF ~r.enforceSubset
             THEN intersect(r.accessFS, {AccessFSRefer})
             ELSE r.accessFS
    IN  isSubset(a, cf.handledAccessFS)

RuleGroup_compatibleWithConfig(g, cf) ==
    \A i \in 1..Len(g.rules) : compatibleWithConfig(g.rules[i], cf)

compatibleWithConfig(r, cf) ==
    IF r.kind = "fs"
    THEN FSRule_compatibleWithConfig(r, cf)
    ELSE RuleGroup_compatibleWithConfig(r, cf)

(***************************************************************************)
(* downgrade, by rule variant, and for the whole call.                     *)
(***************************************************************************)
RECURSIVE Rule_downgrade(_, _)

\* Mutant: the refer right is clipped like any other right.
FSRule_downgrade_ClipRefer(r, cf) ==
    [out |-> intersectRights(r, cf.handledAccessFS), ok |-> TRUE]

FSRule_downgrade(r, cf) ==
    IF hasRefer(r.accessFS) /\ ~hasRefer(cf.handledAccessFS)
    THEN [out |-> FSRule({}, FALSE, <<>>), ok |-> FALSE]
    ELSE [out |-> intersectRights(r, cf.handledAccessFS), ok |-> TRUE]

\* Mutant: the rules of a group keep their rights.
RuleGroup_downgrade_KeepRights(g, cf) ==
    IF \E i \in 1..Len(g.rules) : ~Rule_downgrade(g.rules[i], cf).ok
    THEN [out |-> GroupRules(<<>>), ok |-> FALSE]
    ELSE [out |-> g, ok |-> TRUE]

RuleGroup_downgrade(g, cf) ==
    IF \E i \in 1..Len(g.rules) : ~Rule_downgrade(g.rules[i], cf).ok
    THEN [out |-> GroupRules(<<>>), ok |-> FALSE]
    ELSE [out |-> GroupRules([i \in 1..Len(g.rules) |->
                                 Rule_downgrade(g.rules[i], cf).out]),
          ok |-> TRUE]

Rule_downgrade(r, cf) ==
    IF r.kind = "fs" THEN FSRule_downgrade(r, cf) ELSE RuleGroup_downgrade(r, cf)

\* Mutant: the Config is not restricted to the ABI, only the rules to it.
downgrade_KeepHandled(cf, os, a) ==
    IF \E i \in 1..Len(os) : ~Rule_downgrade(os[i], cf).ok
    THEN [c |-> v0, opts |-> <<>>]
    ELSE [c |-> cf, opts |-> [i \in 1..Len(os) |-> Rule_downgrade(os[i], cf).out]]

\* Mutant: the rules are downgraded against the Config as the caller gave it.
downgrade_RulesAgainstCaller(cf, os, a) ==
    LET c2 == restrictTo(cf, a)
    IN  IF \E i \in 1..Len(os) : ~Rule_downgrade(os[i], cf).ok
        THEN [c |-> v0, opts |-> <<>>]
        ELSE [c |-> c2,
              opts |-> [i \in 1..Len(os) |-> Rule_downgrade(os[i], cf).out]]

downgrade(cf, os, a) ==
    LET c2 == restrictTo(cf, a)
    IN  IF \E i \in 1..Len(os) : ~Rule_downgrade(os[i], c2).ok
        THEN [c |-> v0, opts |-> <<>>]
        ELSE [c |-> c2,
              opts |-> [i \in 1..Len(os) |-> Rule_downgrade(os[i], c2).out]]

(***************************************************************************)
(* addToRuleset, by rule variant: the addPath calls it makes, in order.    *)
(***************************************************************************)
RECURSIVE Rule_addToRuleset(_, _)
RECURSIVE addAll(_, _)

\* Mutant: a path that does not exist is skipped.
FSRule_addToRuleset_SkipMissing(r, cf) ==
    LET effectiveAccessFS == IF ~r.enforceSubset
                             THEN intersect(r.accessFS, cf.handledAccessFS)
                             ELSE r.accessFS
        existing == SelectSeq(r.paths, LAMBDA q : q \in {"d", "d/f", "g"})
    IN  [i \in 1..Len(existing) |->
            [path |-> existing[i], access |-> effectiveAccessFS,
             ignore |-> r.ignoreIfMissing]]

\* Mutant: a rule whose effective rights are empty is not registered.
FSRule_addToRuleset_SkipEmpty(r, cf) ==
    LET effectiveAccessFS == IF ~r.enforceSubset
                             THEN intersect(r.accessFS, cf.handledAccessFS)
                             ELSE r.accessFS
    IN  IF effectiveAccessFS = {} THEN <<>>
        ELSE [i \in 1..Len(r.paths) |->
                 [path |-> r.paths[i], access |-> effectiveAccessFS,
                  ignore |-> r.ignoreIfMissing]]

\* Mutant: with "ignore if missing", the rule's paths after the first one that
\* does not exist are dropped with it.
FSRule_addToRuleset_StopAtMissing(r, cf) ==
    LET effectiveAccessFS == IF ~r.enforceSubset
                             THEN intersect(r.accessFS, cf.handledAccessFS)
                             ELSE r.accessFS
        n == IF r.ignoreIfMissing /\ \E i \in 1..Len(r.paths) : r.paths[i] = "missing"
             THEN CHOOSE i \in 1..Len(r.paths) :
                      /\ r.paths[i] = "missing"
                      /\ \A j \in 1..(i - 1) : r.paths[j] # "missing"
             ELSE Len(r.paths)
    IN  [i \in 1..n |->
            [path |-> r.paths[i], access |-> effectiveAccessFS,
             ignore |-> r.ignoreIfMissing]]

\* Mutant: a canned rule's rights are not clipped to the handled set.
FSRule_addToRuleset_NoClip(r, cf) ==
    [i \in 1..Len(r.paths) |->
        [path |-> r.paths[i], access |-> r.accessFS, ignore |-> r.ignoreIfMissing]]

FSRule_addToRuleset(r, cf) ==
    LET effectiveAccessFS == IF ~r.enforceSubset
                             THEN intersect(r.accessFS, cf.handledAccessFS)
                             ELSE r.accessFS
    IN  [i \in 1..Len(r.paths) |->
            [path |-> r.paths[i], access |-> effectiveAccessFS,
             ignore |-> r.ignoreIfMissing]]

\* Mutant: only the first rule of a group is added.
RuleGroup_addToRuleset_FirstOnly(g, cf) ==
    IF g.rules = <<>> THEN <<>> ELSE Rule_addToRuleset(Head(g.rules), cf)

RuleGroup_addToRuleset(g, cf) == addAll(g.rules, cf)

Rule_addToRuleset(r, cf) ==
    IF r.kind = "fs" THEN FSRule_addToRuleset(r, cf) ELSE RuleGroup_addToRuleset(r, cf)

\* Mutant: the rules are added last first.
addAll_Reversed(rs, cf) ==
    IF rs = <<>> THEN <<>>
    ELSE addAll(Tail(rs), cf) \o Rule_addToRuleset(Head(rs), cf)

addAll(rs, cf) ==
    IF rs = <<>> THEN <<>>
    ELSE Rule_addToRuleset(Head(rs), cf) \o addAll(Tail(rs), cf)

(***************************************************************************)
(* The file system the rules name, and the kernel's side of the interface. *)
(***************************************************************************)
Paths == {"d", "d/f", "g", "missing"}

PathKind(p) ==
    CASE p = "d" -> "dir"
      [] p = "d/f" -> "file"
      [] p = "g" -> "file"
      [] OTHER -> "none"

Beneath(p, q) == p = q \/ (q = "d" /\ p = "d/f")

\* Rights the kernel accepts in a rule over something that is not a directory.
KernelAccessFile ==
    {AccessFSExecute, AccessFSWriteFile, AccessFSReadFile, AccessFSTruncate}

\* syscall.Open(path, O_PATH|O_CLOEXEC): "ok" or the errno.
Open(p) == IF PathKind(p) = "none" THEN "ENOENT" ELSE "ok"

\* landlock_add_rule(ruleset, path beneath): the results the kernel can give.
LandlockAddPathBeneathRule(rs, p, access) ==
    { IF access = {} THEN "ENOMSG"
      ELSE IF ~(access \subseteq rs.handled) THEN "EINVAL"
      ELSE IF PathKind(p) # "dir" /\ ~(access \subseteq KernelAccessFile) THEN "EINVAL"
      ELSE "ok",
      "ENOMEM" }

\* landlock_create_ruleset: the results the kernel can give.
LandlockCreateRuleset == {"ok", "ENOSYS", "EOPNOTSUPP", "EINVAL", "EMFILE"}

\* Mutant: the flag is assigned from the outcome, so a failing call clears it.
AllThreadsPrctl_Assign(flags, ths, self, outcome) ==
    [t \in DOMAIN flags |-> IF t \in ths THEN outcome = "ok" ELSE flags[t]]

\* prctl(PR_SET_NO_NEW_PRIVS) on all threads: all of them or none.
AllThreadsPrctl(flags, ths, self, outcome) ==
    IF outcome = "ok"
    THEN [t \in DOMAIN flags |-> IF t \in ths THEN TRUE ELSE flags[t]]
    ELSE flags

\* Mutant: the calling thread is restricted first and the others after it, so
\* that a failure leaves the caller restricted.
LandlockRestrictSelf_CallerFirst(doms, ths, self, layer, outcome) ==
    [t \in DOMAIN doms |->
        IF t \in ths /\ (outcome = "ok" \/ t = self) THEN Append(doms[t], layer)
        ELSE doms[t]]

\* Mutant: landlock_restrict_self on the calling thread alone.
LandlockRestrictSelf_CallerOnly(doms, ths, self, layer, outcome) ==
    IF outcome = "ok"
    THEN [t \in DOMAIN doms |-> IF t = self THEN Append(doms[t], layer) ELSE doms[t]]
    ELSE doms

\* landlock_restrict_self on all threads: all of them or none.
AllThreadsLandlockRestrictSelf(doms, ths, self, layer, outcome) ==
    IF outcome = "ok"
    THEN [t \in DOMAIN doms |-> IF t \in ths THEN Append(doms[t], layer) ELSE doms[t]]
    ELSE doms

\* What a ruleset stack lets a thread do: a right some layer handles is
\* inhibited unless that layer allow-lists it for a hierarchy holding p.
Granted(layer, right, p) ==
    \E j \in 1..Len(layer.rules) :
        Beneath(p, layer.rules[j].path) /\ right \in layer.rules[j].access

Allowed(t, right, p) ==
    \A i \in 1..Len(domain[t]) :
        right \in domain[t][i].handled => Granted(domain[t][i], right, p)

(***************************************************************************)
(* The calls the model makes: Configs and rule lists.                      *)
(***************************************************************************)
HandledSets ==
    { {},
      {AccessFSExecute, AccessFSWriteFile},
      {AccessFSTruncate, AccessFSMakeDir},
      V1.handledAccessFS,
      V3.handledAccessFS }

Configs == { Config(h) : h \in HandledSets } \cup { BestEffort(Config(h)) : h \in HandledSets }

RuleCatalog ==
    { PathAccess({AccessFSExecute, AccessFSWriteFile, AccessFSReadFile}, <<"g">>),
      PathAccess({}, <<"g">>),
      PathAccess({AccessFSTruncate}, <<"g">>),
      RODirs(<<"d", "missing">>),
      RODirs(<<"g">>),
      WithRefer(RWDirs(<<"d">>)),
      GroupRules(<< PathAccess({AccessFSReadFile}, <<"d/f">>),
                    WithRefer(PathAccess({AccessFSReadFile}, <<"d">>)) >>) }

RuleLists == UNION { [1..n -> RuleCatalog] : n \in 0..MaxRules }

NoRuleset == [open |-> FALSE, handled |-> {}, rules |-> <<>>]

NoAbi == [version |-> -1, supportedAccessFS |-> {}]

\* gracefulABI.RestrictPaths has not been called.
NoLoop == [g |-> 0, v |-> 0, attempts |-> 0, err |-> nil]

\* Config.String has not been called.
NoString == [version |-> "", desc |-> "", bestEffort |-> ""]

\* The locals of a call that has not started.
NotStarted ==
    [pc |-> "idle", caller |-> 1, cfg |-> v0, opts |-> <<>>, abi |-> NoAbi, c |-> v0,
     rules |-> <<>>, ruleset |-> NoRuleset, todo |-> <<>>, result |-> nil,
     syscalls |-> <<>>, atCall |-> [threads |-> {}, nnp |-> <<>>, domain |-> <<>>]]

\* There was no run before this one.
NoRun == [kv |-> -2, result |-> nil, c |-> v0, layers |-> <<>>]

\* NewConfig has not been called.
NotCalled == [config |-> <<>>, err |-> nil]

(***************************************************************************)
(* The process before any enforcement call.                                *)
(***************************************************************************)
Init ==
    /\ kv \in -1..MaxKernelABI
    /\ threads = {1}
    /\ nnp = [t \in {1} |-> FALSE]
    /\ domain = [t \in {1} |-> <<>>]
    /\ pc = "idle"
    /\ caller = 1
    /\ cfg = v0
    /\ opts = <<>>
    /\ abi = NoAbi
    /\ c = v0
    /\ rules = <<>>
    /\ ruleset = NoRuleset
    /\ todo = <<>>
    /\ result = nil
    /\ syscalls = <<>>
    /\ atCall = [threads |-> {}, nnp |-> <<>>, domain |-> <<>>]
    /\ args = <<>>
    /\ newConfig = NotCalled
    /\ earlier = NoRun
    /\ other = NotStarted
    /\ str = NoString
    /\ legacy = NoLoop

Sys(name, access, p) == [call |-> name, access |-> access, path |-> p]

\* return e: the deferred syscall.Close(fd) runs, the caller gets e.
Return(e) ==
    /\ pc' = "done"
    /\ result' = e
    /\ ruleset' = [ruleset EXCEPT !.open = FALSE]

(***************************************************************************)
(* The runtime starts another OS thread; it inherits its parent's          *)
(* no-new-privileges flag and ruleset stack.  (Thread creation during an   *)
(* enforcement call is outside of what the library covers.)                *)
(***************************************************************************)
SpawnThread ==
    /\ pc \in {"idle", "done"}
    /\ Cardinality(threads) < MaxThreads
    /\ \E parent \in threads :
          LET n == Cardinality(threads) + 1
          IN  /\ threads' = threads \cup {n}
              /\ nnp' = [t \in threads \cup {n} |-> IF t = n THEN nnp[parent] ELSE nnp[t]]
              /\ domain' = [t \in threads \cup {n} |->
                               IF t = n THEN domain[parent] ELSE domain[t]]
    /\ UNCHANGED <<legacy, str, other, earlier, args, newConfig, kv, pc, caller, cfg, opts, abi, c, rules, ruleset, todo,
                   result, syscalls, atCall>>

(***************************************************************************)
(* Config.RestrictPaths(opts...), called by a goroutine on thread caller.  *)
(***************************************************************************)
RestrictPaths ==
    /\ pc = "idle"
    /\ \E t \in threads, cf \in Configs, os \in RuleLists :
          /\ caller' = t
          /\ cfg' = cf
          /\ opts' = os
          /\ c' = cf
          /\ rules' = os
    /\ pc' = "validate"
    /\ atCall' = [threads |-> threads, nnp |-> nnp, domain |-> domain]
    /\ UNCHANGED <<legacy, str, other, earlier, args, newConfig, kv, threads, nnp, domain, abi, ruleset, todo, result, syscalls>>

\* restrictPaths: "Check validity of options early."
Validate ==
    /\ pc = "validate"
    /\ IF \E i \in 1..Len(rules) : ~compatibleWithConfig(rules[i], c)
       THEN Return(ErrorfW("too broad option", Errno("EINVAL")))
       ELSE /\ pc' = "probe"
            /\ UNCHANGED <<result, ruleset>>
    /\ UNCHANGED <<legacy, str, other, earlier, args, newConfig, kv, threads, nnp, domain, caller, cfg, opts, abi, c, rules,
                   todo, syscalls, atCall>>

\* ll.LandlockGetABIVersion(): the version and whether the query failed.
LandlockGetABIVersion == [v |-> kv, failed |-> kv < 0]

\* getSupportedABIVersion: the index into abiInfos (0-based, as in the code).
getSupportedABIVersion(q) == IF q.failed THEN 0 ELSE q.v

\* abi := getSupportedABIVersion(); an index past the registry panics.
Probe ==
    /\ pc = "probe"
    /\ syscalls' = Append(syscalls, Sys("landlock_get_abi_version", {}, ""))
    /\ LET v == getSupportedABIVersion(LandlockGetABIVersion)
       IN  IF v < Len(abiInfos)
           THEN /\ abi' = abiInfos[v + 1]
                /\ pc' = "negotiate"
           ELSE /\ abi' = abi
                /\ pc' = "panic"
    /\ UNCHANGED <<legacy, str, other, earlier, args, newConfig, kv, threads, nnp, domain, caller, cfg, opts, c, rules,
                   ruleset, todo, result, atCall>>

\* Mutant: the downgrade is done in strict mode too.
optionalDowngrade_Always(cf, os, a) == downgrade(cf, os, a)

\* if c.bestEffort { c, opts = downgrade(c, opts, abi) }
optionalDowngrade(cf, os, a) ==
    IF cf.bestEffort THEN downgrade(cf, os, a) ELSE [c |-> cf, opts |-> os]

\* Mutant: the "nothing to restrict" exit is missing.
Negotiate_NoEmptyExit ==
    /\ pc = "negotiate"
    /\ LET dg == optionalDowngrade(c, rules, abi)
       IN  /\ c' = dg.c
           /\ rules' = dg.opts
           /\ IF ~compatibleWithABI(dg.c, abi)
              THEN Return(errorsNew("missing kernel Landlock support"))
              ELSE /\ pc' = "create"
                   /\ UNCHANGED <<result, ruleset>>
    /\ UNCHANGED <<legacy, str, other, earlier, args, newConfig, kv, threads, nnp, domain, caller, cfg, opts, abi, todo,
                   syscalls, atCall>>

\* The optional downgrade, the ABI check and the "nothing to restrict" exit.
Negotiate ==
    /\ pc = "negotiate"
    /\ LET dg == optionalDowngrade(c, rules, abi)
       IN  /\ c' = dg.c
           /\ rules' = dg.opts
           /\ IF ~compatibleWithABI(dg.c, abi)
              THEN Return(errorsNew("missing kernel Landlock support"))
              ELSE IF isEmpty(dg.c.handledAccessFS)
              THEN Return(nil)
              ELSE /\ pc' = "create"
                   /\ UNCHANGED <<result, ruleset>>
    /\ UNCHANGED <<legacy, str, other, earlier, args, newConfig, kv, threads, nnp, domain, caller, cfg, opts, abi, todo,
                   syscalls, atCall>>

\* Mutant: only an error that is not reclassified is marked as a bug.
createRulesetError_BugOnlyOther(errno) ==
    LET e0 == Errno(errno)
    IN  IF errorsIs(e0, "ENOSYS") \/ errorsIs(e0, "EOPNOTSUPP")
        THEN ErrorfW("landlock_create_ruleset",
                     errorsNew("landlock is not supported by kernel or not enabled at boot time"))
        ELSE IF errorsIs(e0, "EINVAL")
        THEN ErrorfW("landlock_create_ruleset",
                     errorsNew("unknown flags, unknown access, or too small size"))
        ELSE bug(ErrorfW("landlock_create_ruleset", e0))

\* The reclassification of landlock_create_ruleset's error.
createRulesetError(errno) ==
    LET e0 == Errno(errno)
        e1 == IF errorsIs(e0, "ENOSYS") \/ errorsIs(e0, "EOPNOTSUPP")
              THEN errorsNew("landlock is not supported by kernel or not enabled at boot time")
              ELSE e0
        e2 == IF errorsIs(e1, "EINVAL")
              THEN errorsNew("unknown flags, unknown access, or too small size")
              ELSE e1
    IN  bug(ErrorfW("landlock_create_ruleset", e2))

\* fd, err := ll.LandlockCreateRuleset(&rulesetAttr, 0)
CreateRuleset ==
    /\ pc = "create"
    /\ syscalls' = Append(syscalls, Sys("landlock_create_ruleset", c.handledAccessFS, ""))
    /\ \E outcome \in LandlockCreateRuleset :
          IF outcome # "ok"
          THEN /\ Return(createRulesetError(outcome))
               /\ todo' = todo
          ELSE /\ ruleset' = [open |-> TRUE, handled |-> c.handledAccessFS, rules |-> <<>>]
               /\ todo' = addAll(rules, c)
               /\ pc' = IF addAll(rules, c) = <<>> THEN "nnp" ELSE "populate"
               /\ result' = result
    /\ UNCHANGED <<legacy, str, other, earlier, args, newConfig, kv, threads, nnp, domain, caller, cfg, opts, abi, c, rules, atCall>>

\* Mutant: the path descriptor is not closed.
addPathCalls_NoClose(p, access) ==
    << Sys("open", {}, p), Sys("landlock_add_rule", access, p) >>

\* addPath's kernel calls once the path is open; the deferred close runs
\* whether landlock_add_rule succeeded or failed.
addPathCalls(p, access) ==
    << Sys("open", {}, p), Sys("landlock_add_rule", access, p), Sys("close", {}, p) >>

\* Mutant: ENOMSG has no case of its own.
addRuleError_NoEmptyCase(errno, access) ==
    LET e0 == Errno(errno)
        e1 == IF errorsIs(e0, "EINVAL")
              THEN bug(ErrorfW("invalid flags, or inconsistent access in the rule", e0))
              ELSE bug(e0)
    IN  ErrorfW("landlock_add_rule", e1)

\* The reclassification of landlock_add_rule's error in addPath.
addRuleError(errno, access) ==
    LET e0 == Errno(errno)
        e1 == IF errorsIs(e0, "EINVAL")
              THEN bug(ErrorfW("invalid flags, or inconsistent access in the rule", e0))
              ELSE IF errorsIs(e0, "ENOMSG") /\ access = {}
              THEN ErrorfW("empty access rights", e0)
              ELSE bug(e0)
    IN  ErrorfW("landlock_add_rule", e1)

\* A path that cannot be opened because it does not exist is passed over when
\* its rule carries the "ignore if missing" modifier.
skipMissing(reg, errno) == reg.ignore /\ errno = "ENOENT"

\* addPath for the next path of the rule being added: open, add, close.
addPath ==
    /\ pc = "populate"
    /\ todo # <<>>
    /\ LET p == Head(todo).path
           access == Head(todo).access
       IN  IF Open(p) # "ok" /\ skipMissing(Head(todo), Open(p))
           THEN /\ syscalls' = Append(syscalls, Sys("open", {}, p))
                /\ todo' = Tail(todo)
                /\ pc' = IF Tail(todo) = <<>> THEN "nnp" ELSE "populate"
                /\ UNCHANGED <<result, ruleset>>
           ELSE IF Open(p) # "ok"
           THEN /\ syscalls' = Append(syscalls, Sys("open", {}, p))
                /\ Return(ErrorfW("populating ruleset", ErrorfW("open", Errno(Open(p)))))
                /\ todo' = todo
           ELSE /\ syscalls' = syscalls \o addPathCalls(p, access)
                /\ \E outcome \in LandlockAddPathBeneathRule(ruleset, p, access) :
                      IF outcome # "ok"
                      THEN /\ Return(ErrorfW("populating ruleset", addRuleError(outcome, access)))
                           /\ todo' = todo
                      ELSE /\ ruleset' = [ruleset EXCEPT
                                             !.rules = Append(@, [path |-> p, access |-> access])]
                           /\ todo' = Tail(todo)
                           /\ pc' = IF Tail(todo) = <<>> THEN "nnp" ELSE "populate"
                           /\ result' = result
    /\ UNCHANGED <<legacy, str, other, earlier, args, newConfig, kv, threads, nnp, domain, caller, cfg, opts, abi, c, rules, atCall>>

\* ll.AllThreadsPrctl(unix.PR_SET_NO_NEW_PRIVS, 1, 0, 0, 0)
SetNoNewPrivs ==
    /\ pc = "nnp"
    /\ syscalls' = Append(syscalls, Sys("prctl(PR_SET_NO_NEW_PRIVS)", {}, ""))
    /\ \E outcome \in {"ok", "EINVAL"} :
          /\ nnp' = AllThreadsPrctl(nnp, threads, caller, outcome)
          /\ IF outcome # "ok"
             THEN Return(bug(ErrorfV("prctl(PR_SET_NO_NEW_PRIVS)", Errno(outcome))))
             ELSE /\ pc' = "restrict"
                  /\ UNCHANGED <<result, ruleset>>
    /\ UNCHANGED <<legacy, str, other, earlier, args, newConfig, kv, threads, domain, caller, cfg, opts, abi, c, rules, todo, atCall>>

\* The classification of landlock_restrict_self's error.
\* Mutant: the error of landlock_restrict_self is formatted with %v.
restrictSelfError_LosesCode(errno) ==
    IF errorsIs(Errno(errno), "E2BIG")
    THEN ErrorfW("the maximum number of stacked rulesets is reached for the current thread",
                 Errno(errno))
    ELSE bug(ErrorfV("landlock_restrict_self", Errno(errno)))

restrictSelfError(errno) ==
    IF errorsIs(Errno(errno), "E2BIG")
    THEN ErrorfW("the maximum number of stacked rulesets is reached for the current thread",
                 Errno(errno))
    ELSE bug(ErrorfW("landlock_restrict_self", Errno(errno)))

\* ll.AllThreadsLandlockRestrictSelf(fd, 0)
RestrictSelf ==
    /\ pc = "restrict"
    /\ syscalls' = Append(syscalls, Sys("landlock_restrict_self", ruleset.handled, ""))
    /\ \E outcome \in {"ok", "E2BIG", "EBADFD"} :
          /\ domain' = AllThreadsLandlockRestrictSelf(
                           domain, threads, caller,
                           [handled |-> ruleset.handled, rules |-> ruleset.rules], outcome)
          /\ IF outcome # "ok"
             THEN Return(restrictSelfError(outcome))
             ELSE Return(nil)
    /\ UNCHANGED <<legacy, str, other, earlier, args, newConfig, kv, threads, nnp, caller, cfg, opts, abi, c, rules, todo, atCall>>

Next ==
    \/ SpawnThread
    \/ RestrictPaths
    \/ Validate
    \/ Probe
    \/ Negotiate
    \/ CreateRuleset
    \/ addPath
    \/ SetNoNewPrivs
    \/ RestrictSelf

Spec == Init /\ [][Next]_vars

(***************************************************************************)
(* The same best-effort call in a fresh process on another kernel, after   *)
(* the first run returned success; earlier keeps what the first run        *)
(* returned, negotiated and enforced.                                      *)
(***************************************************************************)
SameCallOnAnotherKernel ==
    /\ pc = "done"
    /\ result = nil
    /\ cfg.bestEffort
    /\ earlier = NoRun
    /\ earlier' = [kv |-> kv, result |-> result, c |-> c, layers |-> domain[caller]]
    /\ \E k \in (-1..MaxKernelABI) \ {kv} : kv' = k
    /\ threads' = {1}
    /\ nnp' = [t \in {1} |-> FALSE]
    /\ domain' = [t \in {1} |-> <<>>]
    /\ caller' = 1
    /\ abi' = NoAbi
    /\ c' = cfg
    /\ rules' = opts
    /\ ruleset' = NoRuleset
    /\ todo' = <<>>
    /\ result' = nil
    /\ syscalls' = <<>>
    /\ atCall' = [threads |-> {1}, nnp |-> [t \in {1} |-> FALSE],
                  domain |-> [t \in {1} |-> <<>>]]
    /\ pc' = "validate"
    /\ UNCHANGED <<legacy, str, other, cfg, opts, args, newConfig>>

NextTwoKernels ==
    \/ RestrictPaths
    \/ Validate
    \/ Probe
    \/ Negotiate
    \/ CreateRuleset
    \/ addPath
    \/ SetNoNewPrivs
    \/ RestrictSelf
    \/ SameCallOnAnotherKernel

SpecTwoKernels == Init /\ [][NextTwoKernels]_vars

(***************************************************************************)
(* The legacy package: ABI.RestrictPaths restricts the calling thread, and *)
(* gracefulABI.RestrictPaths retries it for lower versions.                *)
(***************************************************************************)
AccessFSRoughlyRead == {AccessFSExecute, AccessFSReadFile, AccessFSReadDir}

AccessFSRoughlyWrite ==
    {AccessFSWriteFile, AccessFSRemoveDir, AccessFSRemoveFile, AccessFSMakeChar,
     AccessFSMakeDir, AccessFSMakeReg, AccessFSMakeSock, AccessFSMakeFifo,
     AccessFSMakeBlock, AccessFSMakeSym}

AccessFSRoughlyReadWrite == AccessFSRoughlyRead \cup AccessFSRoughlyWrite

\* pathOpt
pathOpt(a, ps) == [accessFS |-> a, paths |-> ps]

VMax == 1

\* The versions a caller may ask for: below, within and above what the package knows.
LegacyABIs == -1..(VMax + 1)

LegacyCatalog ==
    { pathOpt(AccessFSRoughlyRead, <<"d">>),
      pathOpt(AccessFSRoughlyRead, <<"g">>),
      pathOpt(AccessFSRoughlyRead \cap accessFile, <<"g", "d/f">>),
      pathOpt(AccessFSRoughlyReadWrite, <<"d", "missing">>) }

LegacyRuleLists == UNION { [1..n -> LegacyCatalog] : n \in 0..MaxRules }

RECURSIVE populateRuleset(_)
\* The populate calls of the options, in order.
populateRuleset(os) ==
    IF os = <<>> THEN <<>>
    ELSE [i \in 1..Len(Head(os).paths) |->
             [path |-> Head(os).paths[i], access |-> Head(os).accessFS]]
         \o populateRuleset(Tail(os))

InitLegacy ==
    /\ kv \in -1..MaxKernelABI
    /\ threads = {1}
    /\ nnp = [t \in {1} |-> FALSE]
    /\ domain = [t \in {1} |-> <<>>]
    /\ pc = "legacy idle"
    /\ caller = 1
    /\ cfg = v0
    /\ opts = <<>>
    /\ abi = NoAbi
    /\ c = v0
    /\ rules = <<>>
    /\ ruleset = NoRuleset
    /\ todo = <<>>
    /\ result = nil
    /\ syscalls = <<>>
    /\ atCall = [threads |-> {}, nnp |-> <<>>, domain |-> <<>>]
    /\ args = <<>>
    /\ newConfig = NotCalled
    /\ earlier = NoRun
    /\ other = NotStarted
    /\ str = NoString
    /\ legacy = NoLoop

\* gracefulABI(g).RestrictPaths(opts...): for v := ABI(g); ...
LegacyRestrictPaths ==
    /\ pc = "legacy idle"
    /\ \E g \in LegacyABIs, os \in LegacyRuleLists :
          /\ legacy' = [g |-> g, v |-> g, attempts |-> 0, err |-> nil]
          /\ opts' = os
    /\ atCall' = [threads |-> threads, nnp |-> nnp, domain |-> domain]
    /\ pc' = "legacy loop"
    /\ UNCHANGED <<kv, threads, nnp, domain, caller, cfg, abi, c, rules, ruleset, todo,
                   result, syscalls, args, newConfig, earlier, other, str>>

\* What the loop does with the err of an attempt: break and return nil,
\* continue with the next lower version, or return err.
LegacyAfterAttempt(err) ==
    /\ ruleset' = [ruleset EXCEPT !.open = FALSE]
    /\ IF errorsIs(err, "ENOSYS") \/ errorsIs(err, "EOPNOTSUPP")
       THEN /\ legacy' = [legacy EXCEPT !.err = err]
            /\ pc' = "done"
            /\ result' = nil
       ELSE IF errorsIs(err, "EINVAL")
       THEN /\ legacy' = [legacy EXCEPT !.err = err, !.v = @ - 1]
            /\ pc' = "legacy loop"
            /\ result' = result
       ELSE /\ legacy' = [legacy EXCEPT !.err = err]
            /\ pc' = "done"
            /\ result' = err

\* The loop condition v > 0, and ABI.RestrictPaths' check of v.
LegacyLoop ==
    /\ pc = "legacy loop"
    /\ IF legacy.v > 0
       THEN IF legacy.v > VMax
            THEN /\ legacy' = [legacy EXCEPT
                                  !.attempts = @ + 1,
                                  !.err = errorsNew("golandlock does not support ABI version")]
                 /\ pc' = "done"
                 /\ result' = errorsNew("golandlock does not support ABI version")
            ELSE /\ legacy' = [legacy EXCEPT !.attempts = @ + 1]
                 /\ pc' = "legacy create"
                 /\ result' = result
       ELSE /\ pc' = "done"
            /\ result' = nil
            /\ legacy' = legacy
    /\ UNCHANGED <<kv, threads, nnp, domain, caller, cfg, opts, abi, c, rules, ruleset,
                   todo, syscalls, atCall, args, newConfig, earlier, other, str>>

\* What landlock_create_ruleset answers on the running kernel: -1 is a
\* kernel without Landlock, 0 one with Landlock disabled.
LegacyCreateOutcomes ==
    IF kv < 0 THEN {"ENOSYS"}
    ELSE IF kv = 0 THEN {"EOPNOTSUPP"}
    ELSE {"ok", "EINVAL", "EMFILE"}

LegacyCreateRuleset ==
    /\ pc = "legacy create"
    /\ syscalls' = Append(syscalls, Sys("landlock_create_ruleset", AccessFSRoughlyReadWrite, ""))
    /\ \E outcome \in LegacyCreateOutcomes :
          IF outcome # "ok"
          THEN /\ LegacyAfterAttempt(Errno(outcome))
               /\ todo' = todo
          ELSE /\ ruleset' = [open |-> TRUE, handled |-> AccessFSRoughlyReadWrite,
                              rules |-> <<>>]
               /\ todo' = populateRuleset(opts)
               /\ pc' = IF populateRuleset(opts) = <<>> THEN "legacy nnp" ELSE "legacy populate"
               /\ UNCHANGED <<result, legacy>>
    /\ UNCHANGED <<kv, threads, nnp, domain, caller, cfg, opts, abi, c, rules, atCall,
                   args, newConfig, earlier, other, str>>

\* populate(rulesetFd, path, access)
LegacyPopulate ==
    /\ pc = "legacy populate"
    /\ todo # <<>>
    /\ LET p == Head(todo).path
           access == Head(todo).access
       IN  IF Open(p) # "ok"
           THEN /\ syscalls' = Append(syscalls, Sys("open", {}, p))
                /\ LegacyAfterAttempt(Errno(Open(p)))
                /\ todo' = todo
           ELSE /\ syscalls' = syscalls \o addPathCalls(p, access)
                /\ \E outcome \in LandlockAddPathBeneathRule(ruleset, p, access) :
                      IF outcome # "ok"
                      THEN /\ LegacyAfterAttempt(
                                 ErrorfW("failed to update ruleset", Errno(outcome)))
                           /\ todo' = todo
                      ELSE /\ ruleset' = [ruleset EXCEPT
                                             !.rules = Append(@, [path |-> p, access |-> access])]
                           /\ todo' = Tail(todo)
                           /\ pc' = IF Tail(todo) = <<>> THEN "legacy nnp" ELSE "legacy populate"
                           /\ UNCHANGED <<result, legacy>>
    /\ UNCHANGED <<kv, threads, nnp, domain, caller, cfg, opts, abi, c, rules, atCall,
                   args, newConfig, earlier, other, str>>

\* unix.Prctl(unix.PR_SET_NO_NEW_PRIVS, 1, 0, 0, 0): the calling thread only.
LegacySetNoNewPrivs ==
    /\ pc = "legacy nnp"
    /\ syscalls' = Append(syscalls, Sys("prctl(PR_SET_NO_NEW_PRIVS)", {}, ""))
    /\ \E outcome \in {"ok", "EINVAL"} :
          IF outcome # "ok"
          THEN /\ LegacyAfterAttempt(Errno(outcome))
               /\ nnp' = nnp
          ELSE /\ nnp' = [nnp EXCEPT ![caller] = TRUE]
               /\ pc' = "legacy restrict"
               /\ UNCHANGED <<result, legacy, ruleset>>
    /\ UNCHANGED <<kv, threads, domain, caller, cfg, opts, abi, c, rules, todo, atCall,
                   args, newConfig, earlier, other, str>>

\* ll.LandlockRestrictSelf(fd, 0): the calling thread only.
LegacyRestrictSelf ==
    /\ pc = "legacy restrict"
    /\ syscalls' = Append(syscalls, Sys("landlock_restrict_self", ruleset.handled, ""))
    /\ \E outcome \in {"ok", "E2BIG", "EBADFD"} :
          IF outcome # "ok"
          THEN /\ LegacyAfterAttempt(Errno(outcome))
               /\ domain' = domain
          ELSE /\ domain' = [domain EXCEPT ![caller] =
                                Append(@, [handled |-> ruleset.handled, rules |-> ruleset.rules])]
               /\ ruleset' = [ruleset EXCEPT !.open = FALSE]
               /\ pc' = "done"
               /\ result' = nil
               /\ legacy' = [legacy EXCEPT !.err = nil]
    /\ UNCHANGED <<kv, threads, nnp, caller, cfg, opts, abi, c, rules, todo, atCall,
                   args, newConfig, earlier, other, str>>

NextLegacy ==
    \/ LegacyRestrictPaths
    \/ LegacyLoop
    \/ LegacyCreateRuleset
    \/ LegacyPopulate
    \/ LegacySetNoNewPrivs
    \/ LegacyRestrictSelf

SpecLegacy == InitLegacy /\ [][NextLegacy]_vars

(***************************************************************************)
(* Config.String.  A string is the list of the pieces it is built from.    *)
(***************************************************************************)
accessFSNames ==
    << "Execute", "WriteFile", "ReadFile", "ReadDir", "RemoveDir", "RemoveFile",
       "MakeChar", "MakeDir", "MakeReg", "MakeSock", "MakeFifo", "MakeBlock", "MakeSym" >>

RECURSIVE namesFrom(_, _)
\* The names of the bits i, i+1, ... of a that have a name, in ascending order.
namesFrom(a, i) ==
    IF i >= Len(accessFSNames) THEN <<>>
    ELSE (IF i \in a THEN <<accessFSNames[i + 1]>> ELSE <<>>) \o namesFrom(a, i + 1)

\* AccessFSSet.String
AccessFSSet_String(a) ==
    IF isEmpty(a) THEN <<"(empty set)">> ELSE <<"{">> \o namesFrom(a, 0) \o <<"}">>

NoVersion == [version |-> -1, supportedAccessFS |-> {}]

RECURSIVE String_abi_Highest(_, _, _)
\* Mutant: the loop stops at the first entry, from the top, that fits.
String_abi_Highest(cf, i, found) ==
    IF i < 0 THEN found
    ELSE IF isSubset(cf.handledAccessFS, abiInfos[i + 1].supportedAccessFS)
    THEN abiInfos[i + 1]
    ELSE String_abi_Highest(cf, i - 1, found)

RECURSIVE String_abi(_, _, _)
\* for i := len(abiInfos) - 1; i >= 0; i-- { if isSubset { abi = a } }
String_abi(cf, i, found) ==
    IF i < 0 THEN found
    ELSE String_abi(cf, i - 1,
                    IF isSubset(cf.handledAccessFS, abiInfos[i + 1].supportedAccessFS)
                    THEN abiInfos[i + 1]
                    ELSE found)

\* fmt.Sprintf("V%v", n) for the version numbers of the registry.
SprintfV(n) == <<"V0", "V1", "V2", "V3", "V4", "V5", "V6", "V7", "V8", "V9">>[n + 1]

Config_String(cf) ==
    LET a == String_abi(cf, Len(abiInfos) - 1, NoVersion)
    IN  [version    |-> IF a.version < 0 THEN "V???" ELSE SprintfV(a.version),
         desc       |-> IF a.supportedAccessFS = cf.handledAccessFS
                           /\ cf.handledAccessFS # {}
                        THEN <<"all">>
                        ELSE AccessFSSet_String(cf.handledAccessFS),
         bestEffort |-> IF cf.bestEffort THEN " (best effort)" ELSE ""]

\* Handled sets a Config value can hold, bits without a name included.
StringHandledSets ==
    { V1.handledAccessFS, V2.handledAccessFS, V3.handledAccessFS } \cup
    SUBSET { AccessFSWriteFile, AccessFSReadFile, AccessFSMakeSym, AccessFSRefer,
             AccessFSTruncate, 16, 63 }

InitString ==
    /\ kv = 0
    /\ threads = {1}
    /\ nnp = [t \in {1} |-> FALSE]
    /\ domain = [t \in {1} |-> <<>>]
    /\ pc = "String"
    /\ caller = 1
    /\ cfg \in { Config(h) : h \in StringHandledSets }
                \cup { BestEffort(Config(h)) : h \in StringHandledSets }
    /\ opts = <<>>
    /\ abi = NoAbi
    /\ c = cfg
    /\ rules = <<>>
    /\ ruleset = NoRuleset
    /\ todo = <<>>
    /\ result = nil
    /\ syscalls = <<>>
    /\ atCall = [threads |-> {}, nnp |-> <<>>, domain |-> <<>>]
    /\ args = <<>>
    /\ newConfig = NotCalled
    /\ earlier = NoRun
    /\ other = NotStarted
    /\ str = NoString
    /\ legacy = NoLoop

CallString ==
    /\ pc = "String"
    /\ str' = Config_String(cfg)
    /\ pc' = "returned"
    /\ UNCHANGED <<kv, threads, nnp, domain, caller, cfg, opts, abi, c, rules, ruleset,
                   todo, result, syscalls, atCall, args, newConfig, earlier, other,
                   legacy>>

NextString == CallString

SpecString == InitString /\ [][NextString]_vars

(***************************************************************************)
(* Two enforcement calls in one process, made by two goroutines.  Each     *)
(* step of a call is one kernel call or local computation; between two     *)
(* steps the scheduler may run the other goroutine.  The variables hold    *)
(* the locals of the running call, other those of the waiting one.         *)
(***************************************************************************)
ConcurrentConfigs == { V1, BestEffort(Config({AccessFSExecute, AccessFSWriteFile})) }

ConcurrentRuleLists ==
    { <<>>, <<RODirs(<<"d">>)>>, <<PathAccess({AccessFSExecute}, <<"d/f", "missing">>)>> }

RestrictPathsConcurrent ==
    /\ pc = "idle"
    /\ \E t \in threads, cf \in ConcurrentConfigs, os \in ConcurrentRuleLists :
          /\ caller' = t
          /\ cfg' = cf
          /\ opts' = os
          /\ c' = cf
          /\ rules' = os
    /\ pc' = "validate"
    /\ atCall' = [threads |-> threads, nnp |-> nnp, domain |-> domain]
    /\ UNCHANGED <<legacy, str, other, earlier, args, newConfig, kv, threads, nnp, domain, abi, ruleset,
                   todo, result, syscalls>>

\* The runtime starts a thread while no call is under way.
SpawnThreadBetweenCalls ==
    /\ other.pc \in {"idle", "done"}
    /\ SpawnThread

\* The scheduler switches to the other goroutine.
Yield ==
    /\ other' = [pc |-> pc, caller |-> caller, cfg |-> cfg, opts |-> opts, abi |-> abi,
                 c |-> c, rules |-> rules, ruleset |-> ruleset, todo |-> todo,
                 result |-> result, syscalls |-> syscalls, atCall |-> atCall]
    /\ pc' = other.pc
    /\ caller' = other.caller
    /\ cfg' = other.cfg
    /\ opts' = other.opts
    /\ abi' = other.abi
    /\ c' = other.c
    /\ rules' = other.rules
    /\ ruleset' = other.ruleset
    /\ todo' = other.todo
    /\ result' = other.result
    /\ syscalls' = other.syscalls
    /\ atCall' = other.atCall
    /\ UNCHANGED <<legacy, str, kv, threads, nnp, domain, args, newConfig, earlier>>

NextConcurrent ==
    \/ SpawnThreadBetweenCalls
    \/ RestrictPathsConcurrent
    \/ Validate
    \/ Probe
    \/ Negotiate
    \/ CreateRuleset
    \/ addPath
    \/ SetNoNewPrivs
    \/ RestrictSelf
    \/ Yield

SpecConcurrent == Init /\ [][NextConcurrent]_vars

(***************************************************************************)
(* The enforcement call with rules that carry "ignore if missing".         *)
(***************************************************************************)
IgnoreCatalog ==
    { IgnoreIfMissing(RODirs(<<"missing", "d">>)),
      IgnoreIfMissing(ROFiles(<<"g", "missing">>)),
      IgnoreIfMissing(PathAccess({AccessFSReadFile}, <<"missing">>)),
      RODirs(<<"d", "missing">>),
      PathAccess({AccessFSExecute}, <<"d/f">>),
      GroupRules(<< IgnoreIfMissing(RWFiles(<<"missing", "g">>)),
                    ROFiles(<<"d/f">>) >>) }

IgnoreRuleLists == UNION { [1..n -> IgnoreCatalog] : n \in 0..MaxRules }

RestrictPathsIgnoreIfMissing ==
    /\ pc = "idle"
    /\ \E t \in threads, cf \in Configs, os \in IgnoreRuleLists :
          /\ caller' = t
          /\ cfg' = cf
          /\ opts' = os
          /\ c' = cf
          /\ rules' = os
    /\ pc' = "validate"
    /\ atCall' = [threads |-> threads, nnp |-> nnp, domain |-> domain]
    /\ UNCHANGED <<legacy, str, other, earlier, args, newConfig, kv, threads, nnp, domain, abi, ruleset, todo, result, syscalls>>

NextIgnoreIfMissing ==
    \/ SpawnThread
    \/ RestrictPathsIgnoreIfMissing
    \/ Validate
    \/ Probe
    \/ Negotiate
    \/ CreateRuleset
    \/ addPath
    \/ SetNoNewPrivs
    \/ RestrictSelf

SpecIgnoreIfMissing == Init /\ [][NextIgnoreIfMissing]_vars

(***************************************************************************)
(* downgrade as a function: applied to every Config, rule list and         *)
(* registry entry of the model.                                            *)
(***************************************************************************)
DowngradeHandledSets ==
    HandledSets \cup { {AccessFSReadFile}, {AccessFSRefer, AccessFSReadFile},
                       V2.handledAccessFS }

DowngradeCatalog ==
    RuleCatalog \cup
    { PathAccess({AccessFSRefer, AccessFSReadFile}, <<"d">>),
      WithRefer(PathAccess({}, <<"d">>)),
      ROFiles(<<"d/f">>),
      RWFiles(<<"g">>),
      GroupRules(<<>>),
      GroupRules(<< RODirs(<<"d">>),
                    GroupRules(<< WithRefer(RODirs(<<"d">>)) >>) >>) }

InitDowngrade ==
    /\ kv = 0
    /\ threads = {1}
    /\ nnp = [t \in {1} |-> FALSE]
    /\ domain = [t \in {1} |-> <<>>]
    /\ pc = "downgrade"
    /\ caller = 1
    /\ cfg \in { Config(h) : h \in DowngradeHandledSets }
                \cup { BestEffort(Config(h)) : h \in DowngradeHandledSets }
    /\ opts \in UNION { [1..n -> DowngradeCatalog] : n \in 0..MaxRules }
    /\ abi \in {abiInfos[i] : i \in 1..Len(abiInfos)}
    /\ c = cfg
    /\ rules = opts
    /\ ruleset = NoRuleset
    /\ todo = <<>>
    /\ result = nil
    /\ syscalls = <<>>
    /\ atCall = [threads |-> {}, nnp |-> <<>>, domain |-> <<>>]
    /\ args = <<>>
    /\ newConfig = NotCalled
    /\ earlier = NoRun
    /\ other = NotStarted
    /\ str = NoString
    /\ legacy = NoLoop

Downgrade ==
    /\ pc = "downgrade"
    /\ c' = downgrade(cfg, opts, abi).c
    /\ rules' = downgrade(cfg, opts, abi).opts
    /\ pc' = "downgraded"
    /\ UNCHANGED <<legacy, str, other, earlier, args, newConfig, kv, threads, nnp, domain, caller, cfg, opts, abi, ruleset,
                   todo, result, syscalls, atCall>>

NextDowngrade == Downgrade

SpecDowngrade == InitDowngrade /\ [][NextDowngrade]_vars

(***************************************************************************)
(* downgrade applied to its own result, against a registry entry that is   *)
(* not older than the first one; kv records the second entry's version.    *)
(***************************************************************************)
DowngradeAgain ==
    /\ pc = "downgraded"
    /\ \E j \in abi.version..(Len(abiInfos) - 1) :
          /\ kv' = j
          /\ c' = downgrade(c, rules, abiInfos[j + 1]).c
          /\ rules' = downgrade(c, rules, abiInfos[j + 1]).opts
    /\ pc' = "downgraded twice"
    /\ UNCHANGED <<legacy, str, other, earlier, args, newConfig, threads, nnp, domain, caller, cfg, opts, abi, ruleset,
                   todo, result, syscalls, atCall>>

NextDowngradeTwice == Downgrade \/ DowngradeAgain

SpecDowngradeTwice == InitDowngrade /\ [][NextDowngradeTwice]_vars

(***************************************************************************)
(* NewConfig.  An argument is a value with its dynamic type; an            *)
(* AccessFSSet is a uint64, a set of bits out of 0..63.                    *)
(***************************************************************************)
highestKnownABIVersion == abiInfos[Len(abiInfos)]

\* AccessFSSet.valid
valid(a) == isSubset(a, highestKnownABIVersion.supportedAccessFS)

AccessFSSetArg(a) == [type |-> "AccessFSSet", afs |-> a]

OtherArg(t) == [type |-> t, afs |-> {}]

ArgValues ==
    { AccessFSSetArg({}),
      AccessFSSetArg({AccessFSWriteFile}),
      AccessFSSetArg({AccessFSReadFile}),
      AccessFSSetArg({AccessFSRefer}),
      AccessFSSetArg(V3.handledAccessFS),
      AccessFSSetArg({16}),
      AccessFSSetArg({AccessFSWriteFile, 63}),
      OtherArg("int"),
      OtherArg("string") }

ArgLists == UNION { [1..n -> ArgValues] : n \in 0..MaxArgs }

RECURSIVE NewConfigLoop_SkipUnknown(_, _)
\* Mutant: an argument of another type is passed over.
NewConfigLoop_SkipUnknown(cf, as) ==
    IF as = <<>> THEN [config |-> <<cf>>, err |-> nil]
    ELSE LET arg == Head(as)
         IN  IF arg.type = "AccessFSSet"
             THEN IF ~isEmpty(cf.handledAccessFS)
                  THEN [config |-> <<>>,
                        err |-> errorsNew("only one AccessFSSet may be provided")]
                  ELSE IF ~valid(arg.afs)
                  THEN [config |-> <<>>,
                        err |-> errorsNew("unsupported AccessFSSet value; upgrade go-landlock?")]
                  ELSE NewConfigLoop_SkipUnknown([cf EXCEPT !.handledAccessFS = arg.afs], Tail(as))
             ELSE NewConfigLoop_SkipUnknown(cf, Tail(as))

RECURSIVE NewConfigLoop(_, _)
\* for _, arg := range args { ... }; return &c, nil
NewConfigLoop(cf, as) ==
    IF as = <<>> THEN [config |-> <<cf>>, err |-> nil]
    ELSE LET arg == Head(as)
         IN  IF arg.type = "AccessFSSet"
             THEN IF ~isEmpty(cf.handledAccessFS)
                  THEN [config |-> <<>>,
                        err |-> errorsNew("only one AccessFSSet may be provided")]
                  ELSE IF ~valid(arg.afs)
                  THEN [config |-> <<>>,
                        err |-> errorsNew("unsupported AccessFSSet value; upgrade go-landlock?")]
                  ELSE NewConfigLoop([cf EXCEPT !.handledAccessFS = arg.afs], Tail(as))
             ELSE [config |-> <<>>,
                   err |-> errorsNew("unknown argument; only AccessFSSet-type argument is supported")]

\* var c Config; the loop over the arguments.
NewConfig(as) == NewConfigLoop(Config({}), as)

InitNewConfig ==
    /\ kv = 0
    /\ threads = {1}
    /\ nnp = [t \in {1} |-> FALSE]
    /\ domain = [t \in {1} |-> <<>>]
    /\ pc = "NewConfig"
    /\ caller = 1
    /\ cfg = v0
    /\ opts = <<>>
    /\ abi = NoAbi
    /\ c = v0
    /\ rules = <<>>
    /\ ruleset = NoRuleset
    /\ todo = <<>>
    /\ result = nil
    /\ syscalls = <<>>
    /\ atCall = [threads |-> {}, nnp |-> <<>>, domain |-> <<>>]
    /\ args \in ArgLists
    /\ newConfig = NotCalled
    /\ earlier = NoRun
    /\ other = NotStarted
    /\ str = NoString
    /\ legacy = NoLoop

CallNewConfig ==
    /\ pc = "NewConfig"
    /\ newConfig' = NewConfig(args)
    /\ pc' = "returned"
    /\ UNCHANGED <<legacy, str, other, earlier, args, kv, threads, nnp, domain, caller, cfg, opts, abi, c, rules,
                   ruleset, todo, result, syscalls, atCall>>

NextNewConfig == CallNewConfig

SpecNewConfig == InitNewConfig /\ [][NextNewConfig]_vars

(***************************************************************************)
(* Vocabulary of the properties.                                           *)
(***************************************************************************)
RECURSIVE Flatten(_)
\* The FSRules of a rule list, groups opened, in order.
Flatten(rs) ==
    IF rs = <<>> THEN <<>>
    ELSE IF Head(rs).kind = "fs" THEN <<Head(rs)>> \o Flatten(Tail(rs))
    ELSE Flatten(Head(rs).rules) \o Flatten(Tail(rs))

FlatRules(rs) == {Flatten(rs)[i] : i \in 1..Len(Flatten(rs))}

Issued(name) == \E i \in 1..Len(syscalls) : syscalls[i].call = name

OnlyProbed == syscalls = <<Sys("landlock_get_abi_version", {}, "")>>

\* No thread's flag or ruleset stack differs from what it (or the thread it
\* was started from) had when the call was made.
NothingEnforcedByCall ==
    \A t \in threads :
        \E u \in atCall.threads :
            nnp[t] = atCall.nnp[u] /\ domain[t] = atCall.domain[u]

DomainsUntouchedByCall ==
    \A t \in threads : \E u \in atCall.threads : domain[t] = atCall.domain[u]

\* Some rule of the call grants the right on p.
GrantedByRules(right, p) ==
    \E f \in FlatRules(opts) :
        \E i \in 1..Len(f.paths) : Beneath(p, f.paths[i]) /\ right \in f.accessFS

HasPolicyMismatch ==
    \E f \in FlatRules(opts) :
        f.enforceSubset /\ ~(f.accessFS \subseteq cfg.handledAccessFS)

NamesMissingPath ==
    \E f \in FlatRules(opts) : \E i \in 1..Len(f.paths) : PathKind(f.paths[i]) = "none"

HasEmptyRightsRule ==
    \E f \in FlatRules(opts) : f.accessFS = {} /\ f.paths # <<>>

\* The compatibility check of restrictPaths rejects no rule of the call.
PassesValidation == \A i \in 1..Len(opts) : compatibleWithConfig(opts[i], cfg)

\* Rights a path rule is registered with (FSRule.addToRuleset).
EffectiveAccessFS(f, cf) ==
    IF f.enforceSubset THEN f.accessFS ELSE f.accessFS \cap cf.handledAccessFS

\* A rule with the "ignore if missing" modifier names a path that does not exist.
MarkedRuleNamesMissingPath ==
    \E f \in FlatRules(opts) :
        f.ignoreIfMissing /\ \E i \in 1..Len(f.paths) : PathKind(f.paths[i]) = "none"

\* Every path that exists, of every rule of the call, is in the layer with the
\* rights of its rule.
AllExistingPathsIn(layer) ==
    \A f \in FlatRules(rules) : \A i \in 1..Len(f.paths) :
        PathKind(f.paths[i]) # "none" =>
            \E j \in 1..Len(layer.rules) :
                layer.rules[j] = [path |-> f.paths[i], access |-> EffectiveAccessFS(f, c)]

\* The call has passed the negotiation step (downgrade, ABI check).
Negotiated ==
    \/ pc \in {"create", "populate", "nnp", "restrict"}
    \/ pc = "done" /\ syscalls # <<>>

\* The add-rule requests of the call, those served followed by those pending.
Registrations ==
    ruleset.rules \o [i \in 1..Len(todo) |-> [path |-> todo[i].path, access |-> todo[i].access]]

\* What the call computes when its rules are listed one by one, groups opened.
ListedIndividually ==
    LET flat == Flatten(opts)
        dg   == optionalDowngrade(cfg, flat, abi)
        regs == addAll(dg.opts, dg.c)
    IN  [valid |-> \A i \in 1..Len(flat) : compatibleWithConfig(flat[i], cfg),
         c     |-> dg.c,
         rules |-> dg.opts,
         regs  |-> [i \in 1..Len(regs) |-> [path |-> regs[i].path, access |-> regs[i].access]]]

RequestsRefer == \E f \in FlatRules(opts) : AccessFSRefer \in f.accessFS

(***************************************************************************)
(* C1.  After an enforcement call returns success with a non-empty final   *)
(* handled set, every thread of the process (those that existed at the     *)
(* call, and those started from them later) has no-new-privileges set and  *)
(* carries the call's ruleset on top of its stack, and no thread is        *)
(* allowed a handled access that no rule of the call grants.               *)
(***************************************************************************)
C1_AllThreadsRestricted ==
    (pc = "done" /\ result = nil /\ ~isEmpty(c.handledAccessFS)) =>
        /\ atCall.threads \subseteq threads
        /\ \A t \in threads :
              /\ nnp[t]
              /\ domain[t] # <<>>
              /\ domain[t][Len(domain[t])].handled = c.handledAccessFS
              /\ \E u \in atCall.threads :
                    Len(domain[t]) = Len(atCall.domain[u]) + 1
              /\ \A right \in c.handledAccessFS, p \in Paths :
                    Allowed(t, right, p) => GrantedByRules(right, p)

\* A successful enforcement with a rule, seen from a thread that existed at
\* the call and is not the caller's.
C1_Witness ==
    /\ pc = "done" /\ result = nil /\ ~isEmpty(c.handledAccessFS)
    /\ opts # <<>>
    /\ atCall.threads = {1, 2}
    /\ caller = 2
    /\ Allowed(1, AccessFSReadFile, "g")
    /\ ~Allowed(1, AccessFSReadFile, "d/f")

(***************************************************************************)
(* C2.  Strict or best-effort, whatever the kernel's ABI version: when a   *)
(* rule built with PathAccess declares rights that are not a subset of the *)
(* Config's handled rights, the call goes no further than the validation,  *)
(* returns the "too broad option" error that matches EINVAL, has issued no *)
(* kernel call, and no thread's flag or ruleset stack has changed.         *)
(***************************************************************************)
C2_PolicyMismatchRejected ==
    (HasPolicyMismatch /\ pc # "idle") =>
        /\ pc \in {"validate", "done"}
        /\ pc = "done" =>
              /\ errorsIs(result, "EINVAL")
              /\ Contains(result, "too broad option")
              /\ syscalls = <<>>
              /\ NothingEnforcedByCall

\* A best-effort call with a too broad PathAccess rule, rejected on a kernel
\* without Landlock, in a process of two threads.
C2_Witness ==
    /\ pc = "done"
    /\ HasPolicyMismatch
    /\ cfg.bestEffort
    /\ kv = 0
    /\ atCall.threads = {1, 2}
    /\ errorsIs(result, "EINVAL")

(***************************************************************************)
(* C3.  downgrade(cfg, rules, abi): when a rule, directly or inside a      *)
(* group, requests refer and cfg.handled \cap abi.supported has no refer,  *)
(* the result is the fallback (v0, no rules); and whatever the inputs, a   *)
(* result that is not the fallback keeps refer in every rule that          *)
(* requested it.                                                           *)
(***************************************************************************)
C3_ReferFallsBack ==
    pc = "downgraded" =>
        /\ (RequestsRefer
              /\ AccessFSRefer \notin intersect(cfg.handledAccessFS, abi.supportedAccessFS))
            => (c = v0 /\ rules = <<>>)
        /\ \/ (c = v0 /\ rules = <<>>)
           \/ /\ Len(Flatten(rules)) = Len(Flatten(opts))
              /\ \A i \in 1..Len(Flatten(opts)) :
                    AccessFSRefer \in Flatten(opts)[i].accessFS
                        => AccessFSRefer \in Flatten(rules)[i].accessFS

\* V2 handles refer, ABI 1 does not support it, and the rule asking for refer
\* sits inside a group: the fallback.
C3_Witness ==
    /\ pc = "downgraded"
    /\ abi.version = 1
    /\ cfg.handledAccessFS = V2.handledAccessFS
    /\ \E i \in 1..Len(opts) : opts[i].kind = "group"
    /\ \A i \in 1..Len(opts) : opts[i].kind = "group" \/ ~hasRefer(opts[i].accessFS)
    /\ RequestsRefer
    /\ c = v0
    /\ rules = <<>>

(***************************************************************************)
(* C4 as stated: whenever the call returns an error, neither the ruleset   *)
(* nor the no-new-privileges flag has been applied by it on any thread.    *)
(***************************************************************************)
C4_Original ==
    (pc = "done" /\ result # nil) => NothingEnforcedByCall

(***************************************************************************)
(* C4, amended.  Whenever the call returns an error, no thread's ruleset   *)
(* stack has been changed by it; the no-new-privileges flag is untouched   *)
(* too unless the failing step is restrict-self, and then the flag is set  *)
(* on every thread.                                                        *)
(***************************************************************************)
C4_ErrorLeavesNoRuleset ==
    (pc = "done" /\ result # nil) =>
        /\ DomainsUntouchedByCall
        /\ ~Issued("landlock_restrict_self") => NothingEnforcedByCall
        /\ Issued("landlock_restrict_self") => \A t \in threads : nnp[t]

\* restrict-self fails after no-new-privileges was set, in a process of two
\* threads with rules already in the ruleset.
C4_Witness ==
    /\ pc = "done"
    /\ errorsIs(result, "E2BIG")
    /\ atCall.threads = {1, 2}
    /\ ruleset.rules # <<>>
    /\ \A t \in threads : nnp[t] /\ ~atCall.nnp[t] /\ domain[t] = atCall.domain[t]

(***************************************************************************)
(* C5 as stated: a call with a rule that names a path that does not exist  *)
(* returns an error matching ENOENT, and neither no-new-privileges nor     *)
(* restrict-self is issued.                                                *)
(***************************************************************************)
C5_Original ==
    (pc = "done" /\ NamesMissingPath) =>
        /\ errorsIs(result, "ENOENT")
        /\ ~Issued("prctl(PR_SET_NO_NEW_PRIVS)")
        /\ ~Issued("landlock_restrict_self")

(***************************************************************************)
(* C5, amended.  A call with a rule that names a path that does not exist  *)
(* never installs a restriction: no-new-privileges and restrict-self are   *)
(* not issued and no thread changes, even when earlier paths were added to *)
(* the ruleset.  It returns the "open" error matching ENOENT exactly when  *)
(* rule population reaches that path; it returns success only when the     *)
(* final handled set is empty, and then nothing was opened.                *)
(***************************************************************************)
C5_MissingPathNeverEnforced ==
    (NamesMissingPath /\ pc # "idle") =>
        /\ ~Issued("prctl(PR_SET_NO_NEW_PRIVS)")
        /\ ~Issued("landlock_restrict_self")
        /\ NothingEnforcedByCall
        /\ pc = "done" =>
              /\ errorsIs(result, "ENOENT") <=>
                    (todo # <<>> /\ PathKind(Head(todo).path) = "none")
              /\ errorsIs(result, "ENOENT") =>
                    /\ Contains(result, "open")
                    /\ syscalls[Len(syscalls)] = Sys("open", {}, Head(todo).path)
              /\ result = nil => (isEmpty(c.handledAccessFS) /\ OnlyProbed)

\* The missing path is reached after another path was added to the ruleset.
C5_Witness ==
    /\ pc = "done"
    /\ NamesMissingPath
    /\ errorsIs(result, "ENOENT")
    /\ ruleset.rules # <<>>
    /\ atCall.threads = {1, 2}

C8_StrictAllOrNothing ==
    (~cfg.bestEffort /\ abi # NoAbi /\ pc # "negotiate") =>
        IF ~isSubset(cfg.handledAccessFS, abi.supportedAccessFS)
        THEN /\ pc = "done"
             /\ result = errorsNew("missing kernel Landlock support")
             /\ ~Contains(result, BugMarker)
             /\ OnlyProbed
             /\ ruleset = NoRuleset
             /\ NothingEnforcedByCall
        ELSE /\ c = cfg
             /\ rules = opts
             /\ \A i \in 1..Len(syscalls) :
                   syscalls[i].call = "landlock_create_ruleset"
                       => syscalls[i].access = cfg.handledAccessFS
             /\ (~isEmpty(cfg.handledAccessFS) /\ pc # "create")
                   => Issued("landlock_create_ruleset")

\* V3 in strict mode on a kernel with ABI 1: some, not all, rights supported.
C8_Witness ==
    /\ pc = "done"
    /\ cfg = V3
    /\ kv = 1
    /\ opts # <<>>
    /\ result = errorsNew("missing kernel Landlock support")

(***************************************************************************)
(* C9 as stated: for a Config with empty handled rights and no rules the   *)
(* call succeeds and afterwards no file can be opened for reading.         *)
(***************************************************************************)
C9_Original ==
    (pc = "done" /\ isEmpty(cfg.handledAccessFS) /\ opts = <<>>) =>
        /\ result = nil
        /\ \A t \in threads : \A p \in {"d/f", "g"} : ~Allowed(t, AccessFSReadFile, p)

(***************************************************************************)
(* C9, amended.  For a Config with empty handled rights and no rules the   *)
(* call, when it returns, returns success and has enforced nothing: every  *)
(* file can still be opened for reading.  Deny-all is what a successful    *)
(* call without rules gives for a Config whose final handled set holds     *)
(* read-file: afterwards no thread can open any file for reading.          *)
(***************************************************************************)
C9_DenyAll ==
    (pc = "done" /\ opts = <<>>) =>
        /\ isEmpty(cfg.handledAccessFS) =>
              /\ result = nil
              /\ OnlyProbed
              /\ NothingEnforcedByCall
              /\ \A t \in threads : \A p \in Paths : Allowed(t, AccessFSReadFile, p)
        /\ (result = nil /\ AccessFSReadFile \in c.handledAccessFS) =>
              \A t \in threads : \A p \in Paths : ~Allowed(t, AccessFSReadFile, p)

\* V1 without rules, enforced on a process of two threads: nothing readable.
C9_Witness ==
    /\ pc = "done"
    /\ opts = <<>>
    /\ cfg = V1
    /\ result = nil
    /\ atCall.threads = {1, 2}
    /\ ~Allowed(1, AccessFSReadFile, "g")
    /\ ~Allowed(2, AccessFSReadFile, "d/f")

(***************************************************************************)
(* C10.  Once validation, probe and optional downgrade are done and the    *)
(* final handled set is empty (the fallback included), the call has        *)
(* returned nil and the probe is the only kernel call it issued: no        *)
(* ruleset, no open, no rule, no no-new-privileges, no restrict-self.      *)
(***************************************************************************)
C10_EmptyHandledReturnsAtOnce ==
    (abi # NoAbi /\ pc # "negotiate" /\ isEmpty(c.handledAccessFS)) =>
        /\ pc = "done"
        /\ result = nil
        /\ OnlyProbed
        /\ ruleset = NoRuleset
        /\ todo = <<>>
        /\ NothingEnforcedByCall

\* The fallback: V3 best-effort with a rule asking for refer, on ABI 1.
C10_Witness ==
    /\ pc = "done"
    /\ cfg = BestEffort(V3)
    /\ kv = 1
    /\ RequestsRefer
    /\ c = v0
    /\ rules = <<>>
    /\ result = nil

C13_ClippedRuleNotAdded ==
    (cfg.bestEffort /\ abi.version >= 1 /\ ~HasEmptyRightsRule
       /\ ~isSubset(cfg.handledAccessFS, abi.supportedAccessFS)) =>
        /\ \A i \in 1..Len(syscalls) :
              syscalls[i].call = "landlock_add_rule" => syscalls[i].access # {}
        /\ pc = "done" => ~Contains(result, "empty access rights")

(***************************************************************************)
(* C14.  When the call fails at a path rule that grants directory rights   *)
(* on a plain file, the error matches EINVAL and does not carry the        *)
(* internal-bug marker.                                                    *)
(***************************************************************************)
C14_PlainFileWithDirectoryRights ==
    (pc = "done" /\ todo # <<>>
       /\ PathKind(Head(todo).path) = "file"
       /\ Head(todo).access \subseteq ruleset.handled
       /\ ~(Head(todo).access \subseteq KernelAccessFile)
       /\ ~errorsIs(result, "ENOMEM")) =>
        /\ errorsIs(result, "EINVAL")
        /\ ~Contains(result, BugMarker)

(***************************************************************************)
(* C15.  With a Config whose handled set is not empty and is supported by  *)
(* the kernel, a call with a rule of empty rights over an existing path    *)
(* fails; and when it fails at that rule (the kernel not being out of      *)
(* memory), the error matches ENOMSG, says "empty access rights" and does  *)
(* not carry the internal-bug marker, and nothing is enforced.             *)
(***************************************************************************)
C15_EmptyAccessRights ==
    (pc = "done" /\ HasEmptyRightsRule /\ abi # NoAbi
       /\ ~isEmpty(cfg.handledAccessFS)
       /\ isSubset(cfg.handledAccessFS, abi.supportedAccessFS)) =>
        /\ result # nil
        /\ NothingEnforcedByCall
        /\ (todo # <<>> /\ Head(todo).access = {} /\ PathKind(Head(todo).path) # "none"
              /\ ~errorsIs(result, "ENOMEM")) =>
              /\ errorsIs(result, "ENOMSG")
              /\ Contains(result, "empty access rights")
              /\ Contains(result, "landlock_add_rule")
              /\ ~Contains(result, BugMarker)

\* V1 in strict mode, PathAccess(0, file) after a rule that was added.
C15_Witness ==
    /\ pc = "done"
    /\ cfg = V1
    /\ kv >= 1
    /\ Len(opts) = 2
    /\ opts[2] = PathAccess({}, <<"g">>)
    /\ ruleset.rules # <<>>
    /\ errorsIs(result, "ENOMSG")
    /\ Contains(result, "empty access rights")

(***************************************************************************)
(* C16.  A call with composite rules goes as the call with the sub-rules   *)
(* listed individually: validation rejects it exactly when it rejects one  *)
(* of the listed sub-rules, with the same EINVAL error; the negotiated     *)
(* Config and the downgraded rules (fallback included) are those of the    *)
(* listed sub-rules; the add-rule requests are theirs, in the same order,  *)
(* so that population stops at the same request.                           *)
(***************************************************************************)
C16_GroupSameAsSubRules ==
    /\ pc \notin {"idle", "validate"} =>
          /\ (pc = "done" /\ syscalls = <<>>) <=> ~ListedIndividually.valid
          /\ ~ListedIndividually.valid =>
                errorsIs(result, "EINVAL") /\ Contains(result, "too broad option")
    /\ Negotiated =>
          /\ c = ListedIndividually.c
          /\ Flatten(rules) = ListedIndividually.rules
    /\ ruleset # NoRuleset =>
          /\ Registrations = ListedIndividually.regs
          /\ \A i \in 1..Len(ruleset.rules) :
                \E k \in 1..Len(syscalls) :
                   /\ syscalls[k].call = "landlock_add_rule"
                   /\ syscalls[k].path = ruleset.rules[i].path
                   /\ syscalls[k].access = ruleset.rules[i].access

\* A strict V3 call with a plain rule and a group of two: the group's rules
\* were added after the plain one and the call enforced them.
C16_Witness ==
    /\ pc = "done"
    /\ result = nil
    /\ cfg = V3
    /\ Len(opts) = 2
    /\ opts[1].kind = "fs"
    /\ opts[2].kind = "group"
    /\ Len(ruleset.rules) = 3
    /\ ruleset.rules[3].path = "d"
    /\ AccessFSRefer \in ruleset.rules[3].access
    /\ \A t \in threads : domain[t] # atCall.domain[t]

(***************************************************************************)
(* C17.  downgrade is idempotent and stable under newer ABIs: downgrading  *)
(* against registry version i and then downgrading the result against a    *)
(* version j >= i gives the Config and the rules (or the fallback) that    *)
(* the single downgrade against version i gives.                           *)
(***************************************************************************)
C17_DowngradeIdempotent ==
    pc = "downgraded twice" =>
        /\ kv >= abi.version
        /\ c = downgrade(cfg, opts, abi).c
        /\ rules = downgrade(cfg, opts, abi).opts

\* V3.BestEffort() downgraded against version 1, a rule losing truncate, and
\* then against version 3.
C17_Witness ==
    /\ pc = "downgraded twice"
    /\ cfg = BestEffort(V3)
    /\ abi.version = 1
    /\ kv = 3
    /\ c = BestEffort(V1)
    /\ Len(opts) = 2
    /\ opts[1] = PathAccess({AccessFSTruncate}, <<"g">>)
    /\ opts[2] = RWFiles(<<"g">>)
    /\ rules[1].accessFS = {}
    /\ rules[2] = opts[2]

(***************************************************************************)
(* C18.  Whenever two arguments of the same kind (two AccessFSSet values)  *)
(* are passed, whatever their values, NewConfig returns an error and no    *)
(* Config.                                                                 *)
(***************************************************************************)
C18_SecondOfAKindRejected ==
    (pc = "returned"
       /\ \E i, j \in 1..Len(args) :
             i < j /\ args[i].type = "AccessFSSet" /\ args[j].type = "AccessFSSet") =>
        /\ newConfig.err # nil
        /\ newConfig.config = <<>>

(***************************************************************************)
(* C19.  NewConfig cannot produce an invalid Config: it returns an error   *)
(* (and no Config) when an argument is not an AccessFSSet and when an      *)
(* AccessFSSet has a bit outside what the highest known ABI version        *)
(* supports; without arguments it returns the all-empty Config; every      *)
(* Config it returns has handled rights within the highest known ABI       *)
(* version's supported rights.                                             *)
(***************************************************************************)
C19_NewConfigValid ==
    pc = "returned" =>
        /\ newConfig.err # nil <=> newConfig.config = <<>>
        /\ (\E i \in 1..Len(args) : args[i].type # "AccessFSSet") => newConfig.err # nil
        /\ (\E i \in 1..Len(args) :
               /\ args[i].type = "AccessFSSet"
               /\ ~(args[i].afs \subseteq highestKnownABIVersion.supportedAccessFS)) =>
              newConfig.err # nil
        /\ args = <<>> => newConfig = [config |-> <<Config({})>>, err |-> nil]
        /\ newConfig.err = nil =>
              /\ Len(newConfig.config) = 1
              /\ newConfig.config[1].handledAccessFS
                    \subseteq highestKnownABIVersion.supportedAccessFS
              /\ ~newConfig.config[1].bestEffort

\* NewConfig(AccessFSSet(write_file), "a string") returned an error.
C19_Witness ==
    /\ pc = "returned"
    /\ args = <<AccessFSSetArg({AccessFSWriteFile}), OtherArg("string")>>
    /\ newConfig.err # nil
    /\ newConfig.config = <<>>

\* What an enforcement call exposes to its caller: restrictPaths takes the
\* Config by value and returns an error, nothing else.
Exposed(res, negotiated) == res

(***************************************************************************)
(* C20.  A caller can tell a best-effort success that enforced nothing     *)
(* from one that enforced everything: when the same Config and rules       *)
(* succeed on two kernels, one run falling back to no restriction and the  *)
(* other enforcing every handled right, what the two calls expose to the   *)
(* caller differs.                                                         *)
(***************************************************************************)
C20_FallbackDistinguishable ==
    (pc = "done" /\ earlier # NoRun /\ cfg.bestEffort
       /\ result = nil /\ earlier.result = nil
       /\ \/ /\ earlier.layers = <<>>
             /\ domain[caller] # <<>>
             /\ c.handledAccessFS = cfg.handledAccessFS
          \/ /\ domain[caller] = <<>>
             /\ earlier.layers # <<>>
             /\ earlier.c.handledAccessFS = cfg.handledAccessFS) =>
        Exposed(earlier.result, earlier.c) # Exposed(result, c)

\* The ruleset a returned call has enforced (none when it created none).
LayersOf(res, rs) ==
    IF res = nil /\ rs # NoRuleset
    THEN <<[handled |-> rs.handled, rules |-> rs.rules]>>
    ELSE <<>>

\* Sequence s is an initial part of sequence t.
IsPrefix(s, t) == Len(s) <= Len(t) /\ \A i \in 1..Len(s) : s[i] = t[i]

(***************************************************************************)
(* C21.  Under every interleaving of two enforcement calls in one process: *)
(* the no-new-privileges flag of a thread is never cleared once set, the   *)
(* stack of rulesets of a thread never shrinks, and once both calls have   *)
(* returned success every thread carries the rulesets of both and nothing  *)
(* else (no thread carries only one of them).                              *)
(***************************************************************************)
C21_ConcurrentCallsCompose ==
    /\ [][\A t \in threads : /\ nnp[t] => nnp'[t]
                            /\ IsPrefix(domain[t], domain'[t])]_vars
    /\ []((pc = "done" /\ other.pc = "done" /\ result = nil /\ other.result = nil) =>
            \A t \in threads :
               \/ domain[t] = LayersOf(result, ruleset) \o LayersOf(other.result, other.ruleset)
               \/ domain[t] = LayersOf(other.result, other.ruleset) \o LayersOf(result, ruleset))

\* Two calls with different rulesets, interleaved so that the one that set
\* no-new-privileges first restricted last; both rulesets are on both threads.
C21_Witness ==
    /\ pc = "done"
    /\ other.pc = "done"
    /\ result = nil
    /\ other.result = nil
    /\ threads = {1, 2}
    /\ caller # other.caller
    /\ ruleset.handled # other.ruleset.handled
    /\ ruleset.rules # <<>>
    /\ other.ruleset.rules # <<>>
    /\ \A t \in threads :
          /\ nnp[t]
          /\ domain[t] = LayersOf(other.result, other.ruleset) \o LayersOf(result, ruleset)
    /\ syscalls[Len(syscalls)].call = "landlock_restrict_self"
    /\ other.atCall.domain = atCall.domain

\* The registry versions whose supported set contains the Config's handled set.
VersionsFitting(cf) ==
    { v \in 0..(Len(abiInfos) - 1) :
         cf.handledAccessFS \subseteq abiInfos[v + 1].supportedAccessFS }

(***************************************************************************)
(* C22 as stated: Config.String reports the highest registry version whose *)
(* supported set is a superset of the handled set, and 'V???' exactly when *)
(* no registry version's supported set contains the handled set.           *)
(***************************************************************************)
C22_Original ==
    pc = "returned" =>
        /\ str.version = "V???" <=> VersionsFitting(cfg) = {}
        /\ \A v \in VersionsFitting(cfg) :
              (\A w \in VersionsFitting(cfg) : w <= v) => str.version = SprintfV(v)

(***************************************************************************)
(* C22, amended.  Config.String reports the lowest registry version whose  *)
(* supported set is a superset of the handled set, and 'V???' exactly when *)
(* no registry version's supported set contains the handled set.           *)
(***************************************************************************)
C22_StringReportsLowestVersion ==
    pc = "returned" =>
        /\ str.version = "V???" <=> VersionsFitting(cfg) = {}
        /\ \A v \in VersionsFitting(cfg) :
              (\A w \in VersionsFitting(cfg) : v <= w) => str.version = SprintfV(v)

\* A Config handling write_file and refer is reported as V2, although V3
\* supports these rights as well.
C22_Witness ==
    /\ pc = "returned"
    /\ cfg.handledAccessFS = {AccessFSWriteFile, AccessFSRefer}
    /\ VersionsFitting(cfg) = {2, 3}
    /\ str.version = "V2"

RECURSIVE PathsInListOrder(_)
\* The paths of a list of path rules: rule after rule, each rule's paths in order.
PathsInListOrder(fs) ==
    IF fs = <<>> THEN <<>> ELSE Head(fs).paths \o PathsInListOrder(Tail(fs))

RECURSIVE PathsOf(_, _)
\* The paths of the calls named name, in the order the calls were issued.
PathsOf(name, ss) ==
    IF ss = <<>> THEN <<>>
    ELSE (IF Head(ss).call = name THEN <<Head(ss).path>> ELSE <<>>) \o PathsOf(name, Tail(ss))

PopulationCalls == {"open", "landlock_add_rule", "close"}

(***************************************************************************)
(* C23.  The steps of an enforcement call happen in this order, each only  *)
(* if all earlier ones succeeded: compatibility check of all rules before  *)
(* any kernel call, ABI probe, create ruleset, add rules in list order     *)
(* with each rule's paths in order, no-new-privileges on all threads,      *)
(* restrict-self on all threads.  No-new-privileges is never set before    *)
(* every rule has been added, and restrict-self is only issued right after *)
(* no-new-privileges succeeded.                                            *)
(***************************************************************************)
C23_StepOrder ==
    /\ pc \in {"idle", "validate", "probe"} => syscalls = <<>>
    /\ (pc = "done" /\ HasPolicyMismatch) => syscalls = <<>>
    /\ syscalls # <<>> => PassesValidation
    /\ IsPrefix(PathsOf("open", syscalls), PathsInListOrder(Flatten(rules)))
    /\ IsPrefix(PathsOf("landlock_add_rule", syscalls), PathsOf("open", syscalls))
    /\ Len(PathsOf("landlock_add_rule", syscalls)) >= Len(ruleset.rules)
    /\ \A k \in 1..Len(syscalls) :
          LET call == syscalls[k].call
          IN  /\ call = "landlock_get_abi_version" <=> k = 1
              /\ call = "landlock_create_ruleset" =>
                    /\ k = 2
                    /\ compatibleWithABI(c, abi)
                    /\ syscalls[k].access = c.handledAccessFS
              /\ call \in PopulationCalls =>
                    /\ k > 2
                    /\ ruleset # NoRuleset
                    /\ \A j \in 3..k : syscalls[j].call \in PopulationCalls
              /\ call = "prctl(PR_SET_NO_NEW_PRIVS)" =>
                    /\ k > 2
                    /\ ruleset # NoRuleset
                    /\ todo = <<>>
                    /\ Len(ruleset.rules) = Len(PathsInListOrder(Flatten(rules)))
                    /\ \A j \in 3..(k - 1) : syscalls[j].call \in PopulationCalls
              /\ call = "landlock_restrict_self" =>
                    /\ k = Len(syscalls)
                    /\ k > 3
                    /\ syscalls[k - 1].call = "prctl(PR_SET_NO_NEW_PRIVS)"
                    /\ \A t \in threads : nnp[t]

\* A strict call with two rules over three paths that went through every step.
C23_Witness ==
    /\ pc = "done"
    /\ result = nil
    /\ ~cfg.bestEffort
    /\ Len(opts) = 2
    /\ opts[1] # opts[2]
    /\ Len(ruleset.rules) = 3
    /\ Len(syscalls) = 13
    /\ syscalls[12].call = "prctl(PR_SET_NO_NEW_PRIVS)"
    /\ syscalls[13].call = "landlock_restrict_self"
    /\ \A t \in threads : domain[t] # atCall.domain[t]

RECURSIVE OpenPathDescriptors(_)
\* The path descriptors open after the kernel calls ss: those that open
\* returned less those that were closed.
OpenPathDescriptors(ss) ==
    IF ss = <<>> THEN 0
    ELSE LET last == ss[Len(ss)]
             before == OpenPathDescriptors(SubSeq(ss, 1, Len(ss) - 1))
         IN  IF last.call = "open" /\ Open(last.path) = "ok" THEN before + 1
             ELSE IF last.call = "close" THEN before - 1
             ELSE before

(***************************************************************************)
(* C24.  File descriptors never leak from an enforcement call: at any      *)
(* moment at most one path descriptor is open, each is closed before the   *)
(* next path is opened, whether adding the rule succeeded or failed, and   *)
(* when the call has returned neither a path descriptor nor the ruleset    *)
(* descriptor created by the call is open.                                 *)
(***************************************************************************)
C24_NoDescriptorLeak ==
    /\ \A k \in 0..Len(syscalls) : OpenPathDescriptors(SubSeq(syscalls, 1, k)) \in {0, 1}
    /\ \A k \in 1..Len(syscalls) :
          /\ (syscalls[k].call = "open" /\ Open(syscalls[k].path) = "ok") =>
                /\ k + 2 <= Len(syscalls)
                /\ syscalls[k + 1].call = "landlock_add_rule"
                /\ syscalls[k + 2] = Sys("close", {}, syscalls[k].path)
          /\ (syscalls[k].call = "open" /\ k > 3) =>
                OpenPathDescriptors(SubSeq(syscalls, 1, k - 1)) = 0
    /\ OpenPathDescriptors(syscalls) = 0
    /\ ruleset.open => pc \in {"populate", "nnp", "restrict"}
    /\ pc = "done" => ~ruleset.open

\* The call failed at landlock_add_rule for its second path, after the first
\* was added: both path descriptors and the ruleset descriptor are closed.
C24_Witness ==
    /\ pc = "done"
    /\ result # nil
    /\ Contains(result, "landlock_add_rule")
    /\ Len(ruleset.rules) = 1
    /\ Len(syscalls) = 8
    /\ syscalls[8].call = "close"
    /\ syscalls[7].call = "landlock_add_rule"
    /\ ~ruleset.open
    /\ OpenPathDescriptors(syscalls) = 0

\* The call returned because landlock_create_ruleset failed.
CreateRulesetFailed ==
    /\ pc = "done"
    /\ result # nil
    /\ syscalls # <<>>
    /\ syscalls[Len(syscalls)].call = "landlock_create_ruleset"

FacilityUnavailable == "landlock is not supported by kernel or not enabled at boot time"

UnsupportedHandledRights == "unknown flags, unknown access, or too small size"

(***************************************************************************)
(* C25 as stated: of the errors of ruleset creation, the 'facility         *)
(* unavailable' one (ENOSYS, EOPNOTSUPP) and the 'unsupported              *)
(* handled-rights value' one (EINVAL) are returned outside the             *)
(* internal-bug class; only other codes are returned in it.                *)
(***************************************************************************)
C25_Original ==
    CreateRulesetFailed =>
        /\ \/ Contains(result, FacilityUnavailable)
           \/ Contains(result, UnsupportedHandledRights)
           \/ Contains(result, BugMarker)
        /\ Contains(result, BugMarker) <=>
              ~(Contains(result, FacilityUnavailable) \/ Contains(result, UnsupportedHandledRights))

(***************************************************************************)
(* C25, amended.  Errors of ruleset creation are reclassified by code:     *)
(* ENOSYS and EOPNOTSUPP give the 'facility unavailable' message, EINVAL   *)
(* the 'unsupported handled-rights value' message, both without the code;  *)
(* any other code is kept.  Every one of them, the reclassified ones       *)
(* included, is returned in the internal-bug class.                        *)
(***************************************************************************)
C25_CreateRulesetErrors ==
    /\ \A e \in LandlockCreateRuleset \ {"ok"} :
          LET r == createRulesetError(e)
          IN  /\ Contains(r, BugMarker)
              /\ Contains(r, "landlock_create_ruleset")
              /\ e \in {"ENOSYS", "EOPNOTSUPP"} =>
                    Contains(r, FacilityUnavailable) /\ ~errorsIs(r, e)
              /\ e = "EINVAL" =>
                    Contains(r, UnsupportedHandledRights) /\ ~errorsIs(r, e)
              /\ e \notin {"ENOSYS", "EOPNOTSUPP", "EINVAL"} =>
                    /\ errorsIs(r, e)
                    /\ ~Contains(r, FacilityUnavailable)
                    /\ ~Contains(r, UnsupportedHandledRights)
    /\ CreateRulesetFailed =>
          /\ \E e \in LandlockCreateRuleset \ {"ok"} : result = createRulesetError(e)
          /\ Contains(result, BugMarker)
          /\ ruleset = NoRuleset
          /\ NothingEnforcedByCall

\* V1 in strict mode on a kernel of ABI 1 whose landlock_create_ruleset
\* fails: the 'facility unavailable' error, marked as a bug.
C25_Witness ==
    /\ CreateRulesetFailed
    /\ cfg = V1
    /\ kv = 1
    /\ Contains(result, FacilityUnavailable)
    /\ Contains(result, BugMarker)

\* The call returned an error of the internal-bug class.
BugReturned == pc = "done" /\ Contains(result, BugMarker)

\* errors.Is finds a low-level code in the error.
CodeRecoverable(e) == e.errno \notin {"nil", "none"}

LowLevelCodes ==
    {"ENOSYS", "EOPNOTSUPP", "EINVAL", "EMFILE", "ENOMEM", "ENOMSG", "ENOENT", "E2BIG",
     "EBADFD", "EACCES", "EPERM"}

\* The text of the error names a low-level code.
CodeInText(e) == \E i \in 1..Len(e.msgs) : e.msgs[i] \in LowLevelCodes

LastCall == syscalls[Len(syscalls)].call

(***************************************************************************)
(* C26 as stated: every error of the internal-bug class returned by the    *)
(* enforcement call carries the bug marker and the underlying low-level    *)
(* error code, which the caller can recover from the returned error.       *)
(***************************************************************************)
C26_Original ==
    BugReturned => CodeRecoverable(result)

(***************************************************************************)
(* C26, amended.  Every error of the internal-bug class carries the bug    *)
(* marker and comes from ruleset creation, rule adding, the                *)
(* no-new-privileges step or restrict-self.  The caller can recover the    *)
(* low-level code from the errors of rule adding and of restrict-self and  *)
(* from those of ruleset creation that are not reclassified.  The error of *)
(* the no-new-privileges step names the code in its text only, and the     *)
(* reclassified errors of ruleset creation (ENOSYS, EOPNOTSUPP, EINVAL) do *)
(* not carry the code at all.                                              *)
(***************************************************************************)
C26_BugErrorsAndTheirCode ==
    BugReturned =>
        /\ syscalls # <<>>
        /\ LastCall \in {"landlock_create_ruleset", "close",
                         "prctl(PR_SET_NO_NEW_PRIVS)", "landlock_restrict_self"}
        /\ LastCall = "landlock_create_ruleset" =>
              IF Contains(result, FacilityUnavailable)
                 \/ Contains(result, UnsupportedHandledRights)
              THEN ~CodeRecoverable(result) /\ ~CodeInText(result)
              ELSE CodeRecoverable(result) /\ CodeInText(result)
        /\ LastCall = "close" =>
              /\ Contains(result, "landlock_add_rule")
              /\ CodeRecoverable(result)
              /\ CodeInText(result)
        /\ LastCall = "prctl(PR_SET_NO_NEW_PRIVS)" =>
              /\ ~CodeRecoverable(result)
              /\ CodeInText(result)
        /\ LastCall = "landlock_restrict_self" =>
              /\ CodeRecoverable(result)
              /\ CodeInText(result)
              /\ ~errorsIs(result, "E2BIG")

\* The no-new-privileges step failed after two rules were added: a bug-class
\* error whose code errors.Is does not find.
C26_Witness ==
    /\ BugReturned
    /\ LastCall = "prctl(PR_SET_NO_NEW_PRIVS)"
    /\ Len(ruleset.rules) = 2
    /\ ~CodeRecoverable(result)
    /\ ~errorsIs(result, "EINVAL")
    /\ NothingEnforcedByCall

RECURSIVE SameShape(_, _)
\* Two rule lists have the same length and, rule by rule, the same kind and,
\* for groups, the same shape of sub-rules.
SameShape(rs, qs) ==
    /\ Len(rs) = Len(qs)
    /\ \A i \in 1..Len(rs) :
          /\ rs[i].kind = qs[i].kind
          /\ rs[i].kind = "group" => SameShape(rs[i].rules, qs[i].rules)

\* No rule asks for refer while the Config restricted to the ABI lacks it.
DowngradeKeepsRules ==
    \A f \in FlatRules(opts) :
        ~(AccessFSRefer \in f.accessFS
            /\ AccessFSRefer \notin (cfg.handledAccessFS \cap abi.supportedAccessFS))

(***************************************************************************)
(* C27.  When downgrade(cfg, rules, abi) does not fall back, its result    *)
(* (cfg', rules') satisfies: cfg'.handled = cfg.handled /\ abi.supported   *)
(* (as sets) with the best-effort flag unchanged; rules' has the length    *)
(* and order of rules; every rule has rights' = rights /\ cfg'.handled     *)
(* and the same paths; so rights' is within cfg'.handled, which is within  *)
(* abi.supported.                                                          *)
(***************************************************************************)
C27_DowngradeResult ==
    (pc = "downgraded" /\ DowngradeKeepsRules) =>
        /\ c.handledAccessFS = cfg.handledAccessFS \cap abi.supportedAccessFS
        /\ c.bestEffort = cfg.bestEffort
        /\ SameShape(rules, opts)
        /\ Len(Flatten(rules)) = Len(Flatten(opts))
        /\ \A i \in 1..Len(Flatten(opts)) :
              LET r == Flatten(opts)[i]
                  q == Flatten(rules)[i]
              IN  /\ q.accessFS = r.accessFS \cap c.handledAccessFS
                  /\ q.paths = r.paths
                  /\ q.enforceSubset = r.enforceSubset
                  /\ q.ignoreIfMissing = r.ignoreIfMissing
                  /\ q.accessFS \subseteq c.handledAccessFS
        /\ c.handledAccessFS \subseteq abi.supportedAccessFS

\* A Config handling refer and read_file against ABI 2, with a group inside
\* a group: the read-only directory rights are clipped to read_file, the
\* refer right is kept.
C27_Witness ==
    /\ pc = "downgraded"
    /\ DowngradeKeepsRules
    /\ cfg = BestEffort(Config({AccessFSRefer, AccessFSReadFile}))
    /\ abi.version = 2
    /\ Len(opts) = 2
    /\ opts[1] = PathAccess({AccessFSTruncate}, <<"g">>)
    /\ opts[2].kind = "group"
    /\ rules[1].accessFS = {}
    /\ Len(Flatten(rules)) = 3
    /\ Flatten(rules)[2].accessFS = {AccessFSReadFile}
    /\ Flatten(rules)[3].accessFS = {AccessFSReadFile, AccessFSRefer}

(***************************************************************************)
(* C28.  In every enforcement call, strict or best-effort, with explicit   *)
(* or canned rules, every rights mask passed to landlock_add_rule is a     *)
(* subset of the handled mask passed to landlock_create_ruleset in the     *)
(* same call, and that handled mask is a subset of the probed ABI          *)
(* version's supported set; so the kernel never rejects a rule for rights  *)
(* outside the ruleset's handled rights.                                   *)
(***************************************************************************)
C28_RightsWithinHandledWithinSupported ==
    \A k \in 1..Len(syscalls) :
        /\ syscalls[k].call = "landlock_create_ruleset" =>
              /\ abi # NoAbi
              /\ abi = abiInfos[kv + 1] \/ (kv < 0 /\ abi = abiInfos[1])
              /\ syscalls[k].access \subseteq abi.supportedAccessFS
              /\ ruleset # NoRuleset => ruleset.handled = syscalls[k].access
        /\ syscalls[k].call = "landlock_add_rule" =>
              /\ syscalls[2].call = "landlock_create_ruleset"
              /\ syscalls[k].access \subseteq syscalls[2].access
              /\ syscalls[k].access \subseteq ruleset.handled
              /\ syscalls[k].access \subseteq abi.supportedAccessFS

\* A strict call handling execute and write_file with a canned read-only
\* directory rule: the rule is added with execute only.
C28_Witness ==
    /\ pc = "done"
    /\ cfg = Config({AccessFSExecute, AccessFSWriteFile})
    /\ kv = 2
    /\ opts = <<RODirs(<<"d", "missing">>)>>
    /\ Len(syscalls) = 6
    /\ syscalls[2] = Sys("landlock_create_ruleset", {AccessFSExecute, AccessFSWriteFile}, "")
    /\ syscalls[4] = Sys("landlock_add_rule", {AccessFSExecute}, "d")
    /\ ruleset.rules = <<[path |-> "d", access |-> {AccessFSExecute}]>>

(***************************************************************************)
(* C29.  The ABI probe is total: whatever the kernel query gives, an error *)
(* or any version number of at least 0, numbers above the highest version  *)
(* of the registry included, getSupportedABIVersion returns an entry of    *)
(* the registry whose version equals its index: entry 0 on error, the      *)
(* highest known entry when the kernel is newer than the library.  It      *)
(* never looks up an index outside the registry.                           *)
(***************************************************************************)
C29_ProbeTotal ==
    /\ pc # "panic"
    /\ (syscalls # <<>> /\ syscalls[1].call = "landlock_get_abi_version") =>
          /\ \E i \in 1..Len(abiInfos) : abi = abiInfos[i] /\ abi.version = i - 1
          /\ kv < 0 => abi.version = 0
          /\ kv >= Len(abiInfos) => abi = abiInfos[Len(abiInfos)]
          /\ (kv >= 0 /\ kv < Len(abiInfos)) => abi.version = kv

(***************************************************************************)
(* C30.  The legacy best-effort loop tries versions from the requested one *)
(* downwards and ends after at most that many attempts.  It returns        *)
(* success without enforcing anything only when every attempt ended at     *)
(* landlock_create_ruleset (Landlock absent or disabled, ENOSYS or         *)
(* EOPNOTSUPP, or the attributes rejected for every version).  A failure   *)
(* while adding a rule, a path that does not exist or rights the kernel    *)
(* rejects for the path with EINVAL, is returned to the caller.            *)
(***************************************************************************)
C30_LegacyRetryLoop ==
    /\ legacy.v <= legacy.g
    /\ legacy.attempts <= (IF legacy.g > 0 THEN legacy.g ELSE 0)
    /\ legacy.attempts <= legacy.g - legacy.v + 1
    /\ (pc = "done" /\ legacy.g > 0 /\ result = nil /\ domain[caller] = <<>>) =>
          /\ \A k \in 1..Len(syscalls) : syscalls[k].call = "landlock_create_ruleset"
          /\ errorsIs(legacy.err, "ENOSYS") \/ errorsIs(legacy.err, "EOPNOTSUPP")
                \/ (errorsIs(legacy.err, "EINVAL") /\ legacy.v = 0)
    /\ (pc = "done" /\ syscalls # <<>>
          /\ \/ LastCall = "open"
             \/ Contains(legacy.err, "failed to update ruleset")) =>
          /\ result # nil
          /\ result = legacy.err

====
